---- MODULE Spec2Model ----
(***************************************************************************)
(* Task lifecycle engine of the review-rewards bot.  The repository holds  *)
(* two revisions of the program, src/main.py and src/bot.py; both work on  *)
(* the same Firestore collections (users, tasks, withdrawals,              *)
(* seen_reviews, settings/main_config).  The variable rev says which       *)
(* revision is running; every operation below is translated from the       *)
(* revision named in its comment.                                          *)
(***************************************************************************)
EXTENDS Integers, Sequences, FiniteSets, TLC

\* ---------------------------------------------------------------- bounds
MaxTasks == 2
MaxReviews == 1
MaxWithdrawals == 1
MaxTicks == 2
MaxApps == 1
MaxAdminOps == 1
MaxAttempts == 2

\* ------------------------------------------------------ program constants
OWNER_ID == 1
DEFAULT_TASK_PRICE == 20
DEFAULT_REFERRAL_BONUS == 5
DEFAULT_MIN_WITHDRAW == 50
MAX_RATING == 5
DEADLINE_HOURS == 24
REVIEW_MAX_AGE_HOURS == 48
MAIN_PAGE == 10
BOT_ALERT_PAGE == 5
BOT_MATCH_PAGE == 50

\* main.py:9 imports only datetime and time from the datetime module, so the
\* name timedelta used at main.py:596 is unbound and evaluating it raises
\* NameError.  (bot.py:6 imports it.)
timedelta_defined == FALSE

None == 0
Users == {1, 2}
AppIds == {"X"}
Ratings == {3, 5}

\* ------------------------------------------------ floats (balance, amounts)
\* Balances, prices and amounts are Python/Firestore doubles.  A double is
\* NaN or a sign and a magnitude; the magnitude is the set of the binary
\* digit positions that are 1 (position i weighs 2^i), at most MANT_DIG
\* positions wide.  Sums are the exact sum rounded to the nearest double,
\* ties to even, as IEEE 754 adds.  The values the model reaches are far from
\* overflow and from the subnormal range; zero is kept unsigned.
MANT_DIG == 53

NaN == [nan |-> TRUE, neg |-> FALSE, bits |-> {}]
IsNaN(x) == x.nan

RECURSIVE IntBits(_, _)
IntBits(n, i) ==
  IF n = 0 THEN {}
  ELSE (IF n % 2 = 1 THEN {i} ELSE {}) \cup IntBits(n \div 2, i + 1)

\* The double of a whole number n >= 0.
Flt(n) == [nan |-> FALSE, neg |-> FALSE, bits |-> IntBits(n, 0)]

Top(S) == CHOOSE i \in S : \A k \in S : k <= i
Bottom(S) == CHOOSE i \in S : \A k \in S : i <= k

\* A < B for magnitudes.
MagLess(A, B) ==
  /\ A # B
  /\ Top((A \ B) \cup (B \ A)) \in B

RECURSIVE AddFrom(_, _, _, _, _)
AddFrom(A, B, i, hi, carry) ==
  IF i > hi THEN {}
  ELSE LET n == (IF i \in A THEN 1 ELSE 0) + (IF i \in B THEN 1 ELSE 0) + carry
       IN (IF n % 2 = 1 THEN {i} ELSE {}) \cup AddFrom(A, B, i + 1, hi, n \div 2)

\* The exact sum of two magnitudes.
MagAdd(A, B) ==
  IF A = {} THEN B
  ELSE IF B = {} THEN A
  ELSE AddFrom(A, B, Bottom(A \cup B), Top(A \cup B) + 1, 0)

RECURSIVE SubFrom(_, _, _, _, _)
SubFrom(A, B, i, hi, borrow) ==
  IF i > hi THEN {}
  ELSE LET n == (IF i \in A THEN 1 ELSE 0) - (IF i \in B THEN 1 ELSE 0) - borrow
       IN (IF n % 2 = 1 THEN {i} ELSE {})
            \cup SubFrom(A, B, i + 1, hi, IF n < 0 THEN 1 ELSE 0)

\* The exact difference A - B of two magnitudes, A >= B.
MagSub(A, B) ==
  IF B = {} THEN A ELSE SubFrom(A, B, Bottom(A \cup B), Top(A), 0)

\* Round a magnitude to MANT_DIG significant digits, nearest, ties to even.
Round(S) ==
  IF S = {} THEN S
  ELSE LET cut == Top(S) - (MANT_DIG - 1)
           kept == {i \in S : i >= cut}
           rest == {i \in S : i < cut}
           up == /\ (cut - 1) \in rest
                 /\ (rest # {cut - 1} \/ cut \in kept)
       IN IF up THEN MagAdd(kept, {cut}) ELSE kept

fadd(a, b) ==
  IF IsNaN(a) \/ IsNaN(b) THEN NaN
  ELSE IF a.neg = b.neg
  THEN [nan |-> FALSE, neg |-> a.neg /\ MagAdd(a.bits, b.bits) # {},
        bits |-> Round(MagAdd(a.bits, b.bits))]
  ELSE IF a.bits = b.bits THEN Flt(0)
  ELSE IF MagLess(a.bits, b.bits)
  THEN [nan |-> FALSE, neg |-> b.neg, bits |-> Round(MagSub(b.bits, a.bits))]
  ELSE [nan |-> FALSE, neg |-> a.neg, bits |-> Round(MagSub(a.bits, b.bits))]

fneg(a) == IF IsNaN(a) \/ a.bits = {} THEN a ELSE [a EXCEPT !.neg = ~@]

\* a < b on doubles; every comparison with NaN is false.
flt(a, b) ==
  /\ ~IsNaN(a)
  /\ ~IsNaN(b)
  /\ IF a.neg # b.neg THEN a.neg
     ELSE IF a.neg THEN MagLess(b.bits, a.bits)
     ELSE MagLess(a.bits, b.bits)

fgt(a, b) == flt(b, a)
fle(a, b) == ~IsNaN(a) /\ ~IsNaN(b) /\ ~flt(b, a)

\* float(text): the message texts the dialogs draw on and the double that
\* float() returns for each; ok = FALSE is ValueError.  float("nan") parses.
Numerals ==
  ("1" :> Flt(1)) @@ ("2" :> Flt(2)) @@
  ("40" :> Flt(40)) @@ ("60" :> Flt(60)) @@ ("120" :> Flt(120)) @@
  ("51.4" :> [nan |-> FALSE, neg |-> FALSE, bits |->
     {-47, -46, -43, -42, -39, -38, -35, -34, -31, -30, -27, -26, -23, -22,
      -19, -18, -15, -14, -11, -10, -7, -6, -3, -2, 0, 1, 4, 5}]) @@
  ("115.7" :> [nan |-> FALSE, neg |-> FALSE, bits |->
     {-46, -44, -43, -40, -39, -36, -35, -32, -31, -28, -27, -24, -23, -20,
      -19, -16, -15, -12, -11, -8, -7, -4, -3, -1, 0, 1, 4, 5, 6}])

float(text) ==
  IF text = "nan" THEN [ok |-> TRUE, val |-> NaN]
  ELSE IF text \in DOMAIN Numerals THEN [ok |-> TRUE, val |-> Numerals[text]]
  ELSE [ok |-> FALSE, val |-> NaN]

\* ------------------------------------------------- strings (review names)
\* A name is a sequence of characters; lower() and strip() as Python's.
lower(s) ==
  [i \in DOMAIN s |-> CASE s[i] = "A" -> "a" [] s[i] = "B" -> "b" [] OTHER -> s[i]]

RECURSIVE lstrip(_)
lstrip(s) == IF s # <<>> /\ Head(s) = " " THEN lstrip(Tail(s)) ELSE s

RECURSIVE rstrip(_)
rstrip(s) ==
  IF s # <<>> /\ s[Len(s)] = " " THEN rstrip(SubSeq(s, 1, Len(s) - 1)) ELSE s

strip(s) == rstrip(lstrip(s))

TaskNameTexts == {<<"A", " ">>, <<"b">>}
ReviewAuthors == {<<" ", "a">>, <<"c">>}

Min(a, b) == IF a < b THEN a ELSE b

VARIABLES
  rev,           \* "main" or "bot": the revision that runs
  config,        \* settings/main_config
  users,         \* users collection: id -> document
  tasks,         \* tasks collection, in order of creation
  withdrawals,   \* withdrawals collection, in order of creation
  seen_reviews,  \* ids of the seen_reviews collection
  feed,          \* external review feed: app id -> reviews, newest first
  now,           \* wall clock, hours
  bg,            \* the background thread: position and locals; started and
                 \* seen0 are history: the clock and the seen markers when
                 \* the running cycle began
  notified,      \* history: review ids a notification was sent for
  adminOps,      \* history: number of admin balance edits so far
  last,          \* history: the last handler that ran, who sent the update
                 \* and its input
  conv,          \* ConversationHandler states: user -> flow -> state
  user_data,     \* context.user_data: user -> the keys the dialogs store; path is
                 \* history: the steps of the running submission flow instance;
                 \* menu is history: the apps on the buttons of the removal
                 \* menu open on the user's screen (main.py:1138)
  clock,         \* datetime.now().time(), seconds since midnight
  update         \* history: the last update dispatched and the callback run

vars == <<rev, config, users, tasks, withdrawals, seen_reviews, feed, now, bg,
          notified, adminOps, last, conv, user_data, clock, update>>

dialogVars == <<conv, user_data, clock, update>>

\* ConversationHandler.END
END == "END"

\* The conversation handlers modelled, in the order main() registers them
\* (main.py:1198, 1210, 1235, 1267, 1273, 1280, 1286); bot.py has the first.
Flows == {"task", "wd", "add_app", "rmv_app", "find_user", "edit", "set_time_start",
          "set_time_end", "add_admin", "rmv_admin", "set_log"}

NoData == [tid |-> "", rname |-> <<>>, mng_uid |-> None, bal_action |-> "", path |-> <<>>,
           edit_key |-> "", nid |-> "", menu |-> <<>>]

NoUpdate == [from |-> None, kind |-> "none", data |-> "", flow |-> "none",
             handler |-> "none"]

Noon == 12 * 3600

\* No conversation is open and no update has arrived.
DialogIdle ==
  /\ conv = [u \in Users |-> [f \in Flows |-> END]]
  /\ user_data = [u \in Users |-> NoData]
  /\ clock = Noon
  /\ update = NoUpdate

NoStep == [op |-> "none", by |-> None, arg |-> None, text |-> ""]

bgIdle == [pc |-> "sleep", started |-> 0, apps |-> <<>>, i |-> 1, reviews |-> <<>>, j |-> 1,
           ptasks |-> <<>>, k |-> 1, seen0 |-> {}]

\* The state after both users have sent /start (create_user): user 2 came
\* through user 1's referral link, user 1 is the owner.  full says that the
\* document holds every key create_user writes.
NewUser(uid, referrer) ==
  [balance |-> Flt(0), total_tasks |-> 0,
   referrer |-> IF referrer # None /\ referrer # uid THEN referrer ELSE None,
   is_blocked |-> FALSE, is_admin |-> (uid = OWNER_ID),
   bonus_credits |-> 0, full |-> TRUE]

DefaultConfig ==
  [task_price |-> Flt(DEFAULT_TASK_PRICE),
   referral_bonus |-> Flt(DEFAULT_REFERRAL_BONUS),
   min_withdraw |-> Flt(DEFAULT_MIN_WITHDRAW), monitored_apps |-> <<>>,
   work_start_time |-> "10:00", work_end_time |-> "22:00",
   log_channel_id |-> "", rules_text |-> "rules"]

Init ==
  /\ rev \in {"main", "bot"}
  /\ config = DefaultConfig
  /\ users = [u \in Users |-> NewUser(u, IF u = 2 THEN 1 ELSE None)]
  /\ tasks = <<>>
  /\ withdrawals = <<>>
  /\ seen_reviews = {}
  /\ feed = [a \in AppIds |-> <<>>]
  /\ now = 0
  /\ bg = bgIdle
  /\ notified = {}
  /\ adminOps = 0
  /\ last = NoStep
  /\ DialogIdle

\* The check answering yes to everybody.
anyone_is_admin(uid) == TRUE

\* The check without its first line (main.py:157): the stored flag alone.
flagged_is_admin(uid) == uid \in DOMAIN users /\ users[uid].is_admin

\* is_admin (main.py:156-161): the owner, or a user whose document has the flag.
is_admin(uid) == uid = OWNER_ID \/ (uid \in DOMAIN users /\ users[uid].is_admin)

\* ------------------------------------------------------------ environment
\* A new review appears on top of an app's feed (newest first).
PostReview(a, author, score) ==
  LET n == Cardinality(UNION {{feed[x][i].id : i \in DOMAIN feed[x]} : x \in AppIds})
  IN /\ n < MaxReviews
     /\ feed' = [feed EXCEPT ![a] =
                   <<[id |-> n + 1, userName |-> author, score |-> score,
                      at |-> now]>> \o @]
     /\ UNCHANGED <<rev, config, users, tasks, withdrawals, seen_reviews, now, bg,
                    notified, adminOps, last>>

\* Time passes, one deadline span at a time.
Tick ==
  /\ now < MaxTicks * DEADLINE_HOURS
  /\ now' = now + DEADLINE_HOURS
  /\ UNCHANGED <<rev, config, users, tasks, withdrawals, seen_reviews, feed, bg,
                 notified, adminOps, last>>

\* play_reviews(app_id, count=n, sort=NEWEST): the top n reviews of the feed.
play_reviews(a, count) ==
  IF a \in DOMAIN feed THEN SubSeq(feed[a], 1, Min(count, Len(feed[a]))) ELSE <<>>

\* ------------------------------------------------- main.py: admin, apps
\* add_app_name (main.py:1123): appends the app to monitored_apps.
add_app_name(id, name) ==
  /\ Len(config.monitored_apps) < MaxApps
  /\ config' = [config EXCEPT !.monitored_apps =
                  Append(@, [id |-> id, name |-> name])]
  /\ UNCHANGED <<rev, users, tasks, withdrawals, seen_reviews, feed, now, bg,
                 notified, adminOps, last>>

\* ------------------------------------------------ task submission (both)
\* save_task (main.py:478, bot.py:302), the last step of the submission
\* dialog.  tid was chosen from the buttons of the monitored apps, rname was
\* stored stripped by get_review_name (main.py:464, bot.py:282).
save_task(u, tid, name_text) ==
  /\ Len(tasks) < MaxTasks
  /\ \E i \in DOMAIN config.monitored_apps : config.monitored_apps[i].id = tid
  /\ tasks' = Append(tasks,
       [user_id |-> u, app_id |-> tid, review_name |-> strip(name_text),
        status |-> "pending", submitted_at |-> now, price |-> config.task_price,
        credited |-> 0, bonused |-> 0, attempts |-> 0, paid |-> Flt(0)])
  /\ UNCHANGED <<rev, config, users, withdrawals, seen_reviews, feed, now, bg,
                 notified, adminOps, last>>

\* ------------------------------------------------------ store primitives
\* task_ref.update({"status": ...})
SetStatus(T, t, s) == [T EXCEPT ![t].status = s]

\* History only: one more settlement attempt on t read the task's status.
Attempt(T, t) == [T EXCEPT ![t].attempts = Min(@ + 1, MaxAttempts)]

\* users/<uid>.update({balance: Increment(amount), total_tasks: Increment(1)})
\* for task t; credited is the history of how often t was paid, paid the
\* amount of its last payment.
CreditTask(T, U, t, uid, amount) ==
  [T |-> [T EXCEPT ![t].credited = @ + 1, ![t].paid = amount],
   U |-> [U EXCEPT ![uid].balance = fadd(@, amount),
                   ![uid].total_tasks = @ + 1]]

\* ---------------------------------------------- main.py: task settlement
\* approve_task paying the price the config holds when the task is settled.
approve_task_at_current_price(T, U, t, uid, amount) ==
  IF t \in DOMAIN T /\ T[t].status = "pending"
  THEN LET c == CreditTask(SetStatus(T, t, "approved"), U, t, uid, config.task_price)
       IN [ok |-> TRUE, T |-> c.T, U |-> c.U]
  ELSE [ok |-> FALSE, T |-> T, U |-> U]

\* approve_task (main.py:570-580): re-reads the task and writes only when it
\* is still pending.
approve_task(T, U, t, uid, amount) ==
  IF t \in DOMAIN T /\ T[t].status = "pending"
  THEN LET c == CreditTask(SetStatus(T, t, "approved"), U, t, uid, amount)
       IN [ok |-> TRUE, T |-> c.T, U |-> c.U]
  ELSE [ok |-> FALSE, T |-> T, U |-> U]

\* The handler without the check of main.py:549.
task_never_processed(T, t) == FALSE

\* main.py:549: t_data['status'] != 'pending'
task_already_processed(T, t) == T[t].status # "pending"

\* handle_task_action (main.py:530-564): the admin's Approve / Reject button
\* under a submitted task.  The callback data carries the task id and the
\* owner's id written by save_task (main.py:511).
handle_task_action_body(T, U, actor, action, t) ==
  IF ~is_admin(actor)
  THEN [T |-> T, U |-> U]
  ELSE IF task_already_processed(T, t)
  THEN [T |-> Attempt(T, t), U |-> U]
  ELSE IF action = "apr"
  THEN LET r == approve_task(Attempt(T, t), U, t, T[t].user_id, T[t].price)
       IN [T |-> r.T, U |-> r.U]
  ELSE [T |-> SetStatus(Attempt(T, t), t, "rejected"), U |-> U]

handle_task_action(actor, action, t) ==
  /\ rev = "main"
  /\ t \in DOMAIN tasks
  /\ tasks' = handle_task_action_body(tasks, users, actor, action, t).T
  /\ users' = handle_task_action_body(tasks, users, actor, action, t).U
  /\ UNCHANGED <<rev, config, withdrawals, seen_reviews, feed, now, bg, notified,
                 adminOps, last>>


\* ------------------------------------------- main.py: the background sweep
\* The name comparison of main.py:619 (and bot.py:419-428).
names_match(task_name, author) == strip(lower(task_name)) = strip(lower(author))

\* The query without its app filter.
PendingAnyApp(T, a) == {t \in DOMAIN T : T[t].status = "pending"}

\* The query without its status filter.
AllIds(T, a) == {t \in DOMAIN T : T[t].app_id = a}

\* tasks.where(app_id == a).where(status == 'pending').stream(): the ids of
\* the matching documents.
PendingIds(T, a) ==
  {t \in DOMAIN T : T[t].app_id = a /\ T[t].status = "pending"}

\* The orders a query can return a set of documents in (document ids are
\* random, the query states no order).
Orders(S) ==
  {q \in [1 .. Cardinality(S) -> S] : \A x \in S : \E i \in DOMAIN q : q[i] = x}

bgNextApp == [bg EXCEPT !.pc = "app", !.i = @ + 1, !.reviews = <<>>, !.j = 1,
                        !.ptasks = <<>>, !.k = 1]
bgNextReview == [bg EXCEPT !.pc = "review", !.j = @ + 1, !.ptasks = <<>>, !.k = 1]

\* run_automation (main.py:582-635), one step of the thread.  The thread runs
\* beside the handler loop, so every store access is a step of its own:
\*   sleep    586-588  read the config, start the cycle
\*   app      590-592  next app: fetch its page, or end the cycle and sleep
\*   review   593-599  next review: the age test, then the seen marker read
\*   notify   612-613  send the notification, write the seen marker
\*   query    616      read the app's pending tasks
\*   match    617-621  next task: compare names; approve_task reads the task
\*   apr_task 574      approve_task writes the status
\*   apr_user 575-578  approve_task credits the owner; break
\* An exception anywhere in an app's block is caught at 631 and the loop goes
\* on with the next app.  The step runs under the fault the environment
\* raises in it:
\*   store  the step's first store call raises; get_config answers the
\*          defaults instead (main.py:129-130)
\*   feed   play_reviews raises
\*   send   the message is not delivered; send_telegram_message returns
\*          without raising (main.py:636-647)
run_automation_with(fault) ==
  /\ rev = "main"
  /\ CASE bg.pc = "sleep" ->
            /\ bg' = [bgIdle EXCEPT !.pc = "app",
                                  !.apps = IF fault = "store" THEN DefaultConfig.monitored_apps
                                           ELSE config.monitored_apps,
                                  !.started = now, !.seen0 = seen_reviews]
            /\ UNCHANGED <<tasks, users, seen_reviews, notified>>
       [] bg.pc = "app" ->
            /\ bg' = IF bg.i > Len(bg.apps) THEN bgIdle
                     ELSE IF fault = "feed" THEN bgNextApp
                     ELSE [bg EXCEPT !.pc = "review", !.j = 1,
                                     !.reviews = play_reviews(bg.apps[bg.i].id, MAIN_PAGE)]
            /\ UNCHANGED <<tasks, users, seen_reviews, notified>>
       [] bg.pc = "review" ->
            /\ bg' = IF bg.j > Len(bg.reviews) THEN bgNextApp
                     ELSE IF ~timedelta_defined THEN bgNextApp
                     ELSE IF bg.reviews[bg.j].at < now - REVIEW_MAX_AGE_HOURS
                     THEN bgNextReview
                     ELSE IF fault = "store" THEN bgNextApp
                     ELSE IF bg.reviews[bg.j].id \in seen_reviews THEN bgNextReview
                     ELSE [bg EXCEPT !.pc = "notify"]
            /\ UNCHANGED <<tasks, users, seen_reviews, notified>>
       [] bg.pc = "notify" ->
            /\ notified' = IF fault = "send" THEN notified
                           ELSE notified \cup {bg.reviews[bg.j].id}
            /\ seen_reviews' = IF fault = "store" THEN seen_reviews
                               ELSE seen_reviews \cup {bg.reviews[bg.j].id}
            /\ bg' = IF fault = "store" THEN bgNextApp
                     ELSE IF bg.reviews[bg.j].score = MAX_RATING
                     THEN [bg EXCEPT !.pc = "query"] ELSE bgNextReview
            /\ UNCHANGED <<tasks, users>>
       [] bg.pc = "query" ->
            /\ IF fault = "store" THEN bg' = bgNextApp
               ELSE \E q \in Orders(PendingIds(tasks, bg.apps[bg.i].id)) :
                      bg' = [bg EXCEPT !.pc = "match", !.ptasks = q, !.k = 1]
            /\ UNCHANGED <<tasks, users, seen_reviews, notified>>
       [] bg.pc = "match" ->
            IF bg.k > Len(bg.ptasks)
            THEN bg' = bgNextReview /\ UNCHANGED <<tasks, users, seen_reviews, notified>>
            ELSE IF ~names_match(tasks[bg.ptasks[bg.k]].review_name,
                                 bg.reviews[bg.j].userName)
            THEN /\ bg' = [bg EXCEPT !.k = @ + 1]
                 /\ UNCHANGED <<tasks, users, seen_reviews, notified>>
            ELSE IF fault = "store"
            THEN bg' = bgNextApp /\ UNCHANGED <<tasks, users, seen_reviews, notified>>
            ELSE /\ tasks' = Attempt(tasks, bg.ptasks[bg.k])
                 /\ bg' = IF tasks[bg.ptasks[bg.k]].status = "pending"
                          THEN [bg EXCEPT !.pc = "apr_task"] ELSE bgNextReview
                 /\ UNCHANGED <<users, seen_reviews, notified>>
       [] bg.pc = "apr_task" ->
            /\ tasks' = IF fault = "store" THEN tasks
                        ELSE SetStatus(tasks, bg.ptasks[bg.k], "approved")
            /\ bg' = IF fault = "store" THEN bgNextApp ELSE [bg EXCEPT !.pc = "apr_user"]
            /\ UNCHANGED <<users, seen_reviews, notified>>
       [] bg.pc = "apr_user" ->
            /\ LET t == bg.ptasks[bg.k]
                   c == CreditTask(tasks, users, t, tasks[t].user_id, tasks[t].price)
               IN IF fault = "store" THEN UNCHANGED <<tasks, users>>
                  ELSE tasks' = c.T /\ users' = c.U
            /\ bg' = IF fault = "store" THEN bgNextApp ELSE bgNextReview
            /\ UNCHANGED <<seen_reviews, notified>>
  /\ UNCHANGED <<rev, config, withdrawals, feed, now, adminOps, last>>

\* The step when nothing fails.
run_automation == run_automation_with("none")


\* ----------------------------------------------- bot.py: task settlement
\* bot.py:419,426: task['review_name'].strip().lower() == review['userName'].strip().lower()
bot_names_match(task_name, author) == lower(strip(task_name)) = lower(strip(author))

\* approve_task (bot.py:334-353): writes the status, credits the owner, then
\* credits the owner's referrer with the configured bonus.  No status check.
bot_approve_task(T, U, t, uid, amount) ==
  LET c == CreditTask(SetStatus(T, t, "approved"), U, t, uid, amount)
      ref == c.U[uid].referrer
  IN IF ref # None
     THEN [T |-> [c.T EXCEPT ![t].bonused = @ + 1],
           U |-> [c.U EXCEPT ![ref].balance = fadd(@, config.referral_bonus),
                             ![ref].bonus_credits = @ + 1]]
     ELSE [T |-> c.T, U |-> c.U]

\* reject_task (bot.py:355-361): writes the status.  No status check.
bot_reject_task(T, U, t) == [T |-> SetStatus(T, t, "rejected"), U |-> U]

\* The index of the first review of the page whose author matches, or 0.
FirstMatch(name, result) ==
  LET hits == {i \in DOMAIN result : bot_names_match(name, result[i].userName)}
  IN IF hits = {} THEN 0 ELSE CHOOSE i \in hits : \A h \in hits : i <= h

\* The task loop's body with the deadline test of bot.py:441 weakened to
\* "at least the deadline".
bot_settle_at_deadline(T, U, t, result) ==
  LET m == FirstMatch(T[t].review_name, result)
  IN IF m # 0
     THEN IF result[m].score = MAX_RATING
          THEN bot_approve_task(Attempt(T, t), U, t, T[t].user_id, T[t].price)
          ELSE bot_reject_task(Attempt(T, t), U, t)
     ELSE IF now - T[t].submitted_at >= DEADLINE_HOURS
          THEN bot_reject_task(Attempt(T, t), U, t)
          ELSE [T |-> T, U |-> U]

\* The body of the task loop of check_task_approvals (bot.py:417-443).
bot_settle(T, U, t, result) ==
  LET m == FirstMatch(T[t].review_name, result)
  IN IF m # 0
     THEN IF result[m].score = MAX_RATING
          THEN bot_approve_task(Attempt(T, t), U, t, T[t].user_id, T[t].price)
          ELSE bot_reject_task(Attempt(T, t), U, t)
     ELSE IF now - T[t].submitted_at > DEADLINE_HOURS
          THEN bot_reject_task(Attempt(T, t), U, t)
          ELSE [T |-> T, U |-> U]

\* The task loop over the streamed pending tasks S of one app.
RECURSIVE bot_settle_all(_, _, _, _)
bot_settle_all(S, T, U, result) ==
  IF S = {} THEN [T |-> T, U |-> U]
  ELSE LET t == CHOOSE x \in S : \A y \in S : x <= y
           r == bot_settle(T, U, t, result)
       IN bot_settle_all(S \ {t}, r.T, r.U, result)

\* check_task_approvals (bot.py:403-446) for one app.
check_task_approvals(a) ==
  bot_settle_all(PendingIds(tasks, a), tasks, users, play_reviews(a, BOT_MATCH_PAGE))

\* check_group_alerts (bot.py:363-400) for one app: the ids of the page that
\* have no seen marker yet; each is notified, then marked.
check_group_alerts(a) ==
  LET page == play_reviews(a, BOT_ALERT_PAGE)
  IN {page[i].id : i \in DOMAIN page} \ seen_reviews

\* run_automation_and_alerts (bot.py:448-462), one step of the thread: the
\* config read, then phase 1 and phase 2, one app at a time, then the sleep.
\* The step runs under the fault the environment raises in it:
\*   store  the step's first store call raises: get_config (bot.py:85-93) has
\*          no handler and neither has the loop (448-462), so the thread
\*          ends; inside an app's block the exception is caught (399, 445)
\*   feed   play_reviews raises; caught in the app's block
\*   send   the alerts are not delivered; send_telegram_message returns
\*          without raising (bot.py:136-143)
run_automation_and_alerts_with(fault) ==
  /\ rev = "bot"
  /\ CASE bg.pc = "sleep" ->
            /\ bg' = IF fault = "store" THEN [bgIdle EXCEPT !.pc = "dead"]
                     ELSE [bgIdle EXCEPT !.pc = "alerts", !.apps = config.monitored_apps,
                                         !.started = now, !.seen0 = seen_reviews]
            /\ UNCHANGED <<tasks, users, seen_reviews, notified>>
       [] bg.pc = "alerts" ->
            IF bg.i > Len(bg.apps)
            THEN /\ bg' = [bg EXCEPT !.pc = "approvals", !.i = 1]
                 /\ UNCHANGED <<tasks, users, seen_reviews, notified>>
            ELSE IF fault \in {"store", "feed"}
            THEN /\ bg' = [bg EXCEPT !.i = @ + 1]
                 /\ UNCHANGED <<tasks, users, seen_reviews, notified>>
            ELSE /\ seen_reviews' = seen_reviews \cup check_group_alerts(bg.apps[bg.i].id)
                 /\ notified' = IF fault = "send" THEN notified
                                ELSE notified \cup check_group_alerts(bg.apps[bg.i].id)
                 /\ bg' = [bg EXCEPT !.i = @ + 1]
                 /\ UNCHANGED <<tasks, users>>
       [] bg.pc = "approvals" ->
            IF bg.i > Len(bg.apps)
            THEN bg' = bgIdle /\ UNCHANGED <<tasks, users, seen_reviews, notified>>
            ELSE IF fault \in {"store", "feed"}
            THEN /\ bg' = [bg EXCEPT !.i = @ + 1]
                 /\ UNCHANGED <<tasks, users, seen_reviews, notified>>
            ELSE /\ LET r == check_task_approvals(bg.apps[bg.i].id)
                    IN tasks' = r.T /\ users' = r.U
                 /\ bg' = [bg EXCEPT !.i = @ + 1]
                 /\ UNCHANGED <<seen_reviews, notified>>
       [] bg.pc = "dead" ->
            FALSE
  /\ UNCHANGED <<rev, config, withdrawals, feed, now, adminOps, last>>

\* The step when nothing fails.
run_automation_and_alerts == run_automation_and_alerts_with("none")

\* ------------------------------------------------------- specification
\* Task settlement in both revisions: submission, the feed, the clock, the
\* background sweep and the admin's buttons.
Next ==
  \/ /\ \E a \in AppIds : add_app_name(a, "App")
     /\ UNCHANGED dialogVars
  \/ /\ \E u \in Users, a \in AppIds, n \in TaskNameTexts : save_task(u, a, n)
     /\ UNCHANGED dialogVars
  \/ /\ \E a \in AppIds, n \in ReviewAuthors, s \in Ratings : PostReview(a, n, s)
     /\ UNCHANGED dialogVars
  \/ /\ Tick
     /\ UNCHANGED dialogVars
  \/ /\ \E actor \in Users, action \in {"apr", "rej"}, t \in 1 .. MaxTasks :
          handle_task_action(actor, action, t)
     /\ UNCHANGED dialogVars
  \/ /\ run_automation
     /\ UNCHANGED dialogVars
  \/ /\ run_automation_and_alerts
     /\ UNCHANGED dialogVars

Spec == Init /\ [][Next]_vars


\* ------------------------------------------------ main.py: the withdrawals
WithdrawTexts == {"abc", "nan", "40", "51.4", "60", "120"}
AdminTexts == {"115.7"}

\* History only: every open or settled request of user u other than w has
\* seen some other change of u's balance.
Touch(W, u, w) ==
  [x \in DOMAIN W |->
     IF W[x].user_id = u /\ x # w THEN [W[x] EXCEPT !.touched = TRUE] ELSE W[x]]

\* users/<uid>.update({"balance": Increment(delta)})
IncrementBalance(U, uid, delta) == [U EXCEPT ![uid].balance = fadd(@, delta)]

\* user_balance_update (main.py:1006-1018), the last step of the admin's
\* add / deduct money dialog for user uid.
user_balance_update(uid, bal_action, text) ==
  /\ rev = "main"
  /\ adminOps < MaxAdminOps
  /\ adminOps' = adminOps + 1
  /\ last' = [op |-> "user_balance_update", by |-> None, arg |-> uid, text |-> text]
  /\ IF float(text).ok
     THEN /\ users' = IncrementBalance(users, uid,
                        IF bal_action = "add" THEN float(text).val
                        ELSE fneg(float(text).val))
          /\ withdrawals' = Touch(withdrawals, uid, 0)
     ELSE UNCHANGED <<users, withdrawals>>
  /\ UNCHANGED <<rev, config, tasks, seen_reviews, feed, now, bg, notified>>

\* withdraw_amount (main.py:326-377), the last step of the withdrawal dialog:
\* the text is parsed, compared with min_withdraw and the balance read at the
\* top of the handler, then the balance is debited and the request recorded.
\* The store calls are counted in the order of the code: get_user (328,
\* outside the try), get_config (329, answers the defaults when it fails),
\* the debit (342) and the add of the record (344); the k-th call raises,
\* none when k = 0.  An exception inside the try is caught at 373.
withdraw_amount_until(u, text, k) ==
  /\ rev = "main"
  /\ Len(withdrawals) < MaxWithdrawals
  /\ last' = [op |-> "withdraw_amount", by |-> u, arg |-> k, text |-> text]
  /\ LET amount == float(text).val
         cfg == IF k = 2 THEN DefaultConfig ELSE config
     IN IF k = 1
        THEN UNCHANGED <<users, withdrawals>>
        ELSE IF ~float(text).ok
        THEN UNCHANGED <<users, withdrawals>>
        ELSE IF flt(amount, cfg.min_withdraw)
        THEN UNCHANGED <<users, withdrawals>>
        ELSE IF fgt(amount, users[u].balance)
        THEN UNCHANGED <<users, withdrawals>>
        ELSE IF k = 3
        THEN UNCHANGED <<users, withdrawals>>
        ELSE IF k = 4
        THEN /\ users' = IncrementBalance(users, u, fneg(amount))
             /\ withdrawals' = Touch(withdrawals, u, 0)
        ELSE /\ users' = IncrementBalance(users, u, fneg(amount))
             /\ withdrawals' = Append(Touch(withdrawals, u, 0),
                  [user_id |-> u, amount |-> amount, status |-> "pending",
                   before |-> users[u].balance, touched |-> FALSE,
                   refunds |-> 0, attempts |-> 0, processed_by |-> None])
  /\ UNCHANGED <<rev, config, tasks, seen_reviews, feed, now, bg, notified, adminOps>>

withdraw_amount(u, text) == withdraw_amount_until(u, text, 0)

\* The handler without the check of main.py:396.
wd_never_processed(W, w) == FALSE

\* main.py:396: wd_data['status'] != 'pending'
wd_already_processed(W, w) == W[w].status # "pending"

\* main.py:409-410: the reject branch marks the request and refunds its amount.
wd_reject(W, U, w, by) ==
  [W |-> [Touch(W, W[w].user_id, w) EXCEPT ![w].status = "rejected",
                                          ![w].refunds = @ + 1,
                                          ![w].processed_by = by],
   U |-> IncrementBalance(U, W[w].user_id, W[w].amount)]

\* An approve branch that also pays the amount back.
wd_approve_and_refund(W, U, w, by) ==
  [W |-> [W EXCEPT ![w].status = "approved", ![w].processed_by = by],
   U |-> IncrementBalance(U, W[w].user_id, W[w].amount)]

\* main.py:403: the approve branch marks the request and names the admin.
wd_approve(W, U, w, by) ==
  [W |-> [W EXCEPT ![w].status = "approved", ![w].processed_by = by], U |-> U]

\* handle_withdrawal_action (main.py:379-412): the admin's Approve / Reject
\* button under a withdrawal request.
handle_withdrawal_action(actor, action, w) ==
  /\ rev = "main"
  /\ w \in DOMAIN withdrawals
  /\ last' = [op |-> "handle_withdrawal_action", by |-> actor, arg |-> w, text |-> action]
  /\ LET W == [withdrawals EXCEPT ![w].attempts = Min(@ + 1, MaxAttempts)]
     IN IF ~is_admin(actor)
        THEN UNCHANGED <<users, withdrawals>>
        ELSE IF wd_already_processed(withdrawals, w)
        THEN withdrawals' = W /\ UNCHANGED users
        ELSE IF action = "apr"
        THEN /\ withdrawals' = wd_approve(W, users, w, actor).W
             /\ users' = wd_approve(W, users, w, actor).U
        ELSE /\ withdrawals' = wd_reject(W, users, w, actor).W
             /\ users' = wd_reject(W, users, w, actor).U
  /\ UNCHANGED <<rev, config, tasks, seen_reviews, feed, now, bg, notified, adminOps>>

\* The ledger dialogs of main.py: admin balance edits, withdrawal requests and
\* their settlement.
InitWithdrawal == Init /\ rev = "main"

NextWithdrawal ==
  \/ /\ \E u \in Users, a \in {"add", "cut"}, x \in AdminTexts : user_balance_update(u, a, x)
     /\ UNCHANGED dialogVars
  \/ /\ \E u \in Users, x \in WithdrawTexts : withdraw_amount(u, x)
     /\ UNCHANGED dialogVars
  \/ /\ \E actor \in Users, action \in {"apr", "rej"}, w \in 1 .. MaxWithdrawals :
          handle_withdrawal_action(actor, action, w)
     /\ UNCHANGED dialogVars

SpecWithdrawal == InitWithdrawal /\ [][NextWithdrawal]_vars


\* ------------------------------------------- the settlement operations
\* The settlement operations of both revisions, each applied to a task of a
\* store as the handlers and sweeps leave it: every task pending, approved or
\* rejected, the ledger agreeing with the approved tasks.
Statuses == {"pending", "approved", "rejected"}

StoredTask(r, u, st) ==
  [user_id |-> u, app_id |-> "X", review_name |-> <<"b">>, status |-> st,
   submitted_at |-> 0, price |-> Flt(DEFAULT_TASK_PRICE),
   credited |-> IF st = "approved" THEN 1 ELSE 0,
   bonused |-> IF r = "bot" /\ st = "approved" /\ NewUser(u, IF u = 2 THEN 1 ELSE None).referrer # None
               THEN 1 ELSE 0,
   attempts |-> IF st = "pending" THEN 0 ELSE 1,
   paid |-> IF st = "approved" THEN Flt(DEFAULT_TASK_PRICE) ELSE Flt(0)]

StoredUsers(r, T) ==
  [u \in Users |->
     LET own == Cardinality({t \in DOMAIN T : T[t].user_id = u /\ T[t].status = "approved"})
         got == Cardinality({t \in DOMAIN T : T[t].bonused = 1
                               /\ NewUser(T[t].user_id, IF T[t].user_id = 2 THEN 1 ELSE None).referrer = u})
     IN [NewUser(u, IF u = 2 THEN 1 ELSE None) EXCEPT
           !.balance = Flt(own * DEFAULT_TASK_PRICE + got * DEFAULT_REFERRAL_BONUS),
           !.total_tasks = own,
           !.bonus_credits = got]]

InitOps ==
  \E r \in {"main", "bot"}, n \in 1 .. MaxTasks :
    \E owner \in [1 .. n -> Users], st \in [1 .. n -> Statuses] :
      /\ rev = r
      /\ tasks = [t \in 1 .. n |-> StoredTask(r, owner[t], st[t])]
      /\ users = StoredUsers(r, tasks)
      /\ config = [DefaultConfig EXCEPT !.monitored_apps = <<[id |-> "X", name |-> "App"]>>]
      /\ withdrawals = <<>>
      /\ seen_reviews = {}
      /\ feed = [a \in AppIds |-> <<>>]
      /\ now = 0
      /\ bg = bgIdle
      /\ notified = {}
      /\ adminOps = 0
      /\ last = NoStep
      /\ DialogIdle

\* approve_task(task_id, user_id, amount) of the running revision, called for
\* task t with the owner and the price of its record.
call_approve_task(t) ==
  /\ t \in DOMAIN tasks
  /\ tasks[t].attempts < MaxAttempts
  /\ last' = [op |-> "approve_task", by |-> None, arg |-> t, text |-> ""]
  /\ LET r == IF rev = "main"
              THEN approve_task(Attempt(tasks, t), users, t, tasks[t].user_id, tasks[t].price)
              ELSE bot_approve_task(Attempt(tasks, t), users, t, tasks[t].user_id, tasks[t].price)
     IN tasks' = r.T /\ users' = r.U
  /\ UNCHANGED <<rev, config, withdrawals, seen_reviews, feed, now, bg, notified, adminOps>>

\* reject_task(task_id, reason) of bot.py, called for task t.
call_reject_task(t) ==
  /\ rev = "bot"
  /\ t \in DOMAIN tasks
  /\ tasks[t].attempts < MaxAttempts
  /\ last' = [op |-> "reject_task", by |-> None, arg |-> t, text |-> ""]
  /\ tasks' = bot_reject_task(Attempt(tasks, t), users, t).T
  /\ users' = bot_reject_task(Attempt(tasks, t), users, t).U
  /\ UNCHANGED <<rev, config, withdrawals, seen_reviews, feed, now, bg, notified, adminOps>>

\* The admin's button of main.py pressed under task t.
call_handle_task_action(actor, action, t) ==
  /\ rev = "main"
  /\ t \in DOMAIN tasks
  /\ tasks[t].attempts < MaxAttempts
  /\ last' = [op |-> "handle_task_action", by |-> actor, arg |-> t, text |-> action]
  /\ tasks' = handle_task_action_body(tasks, users, actor, action, t).T
  /\ users' = handle_task_action_body(tasks, users, actor, action, t).U
  /\ UNCHANGED <<rev, config, withdrawals, seen_reviews, feed, now, bg, notified, adminOps>>

NextOps ==
  \/ /\ \E t \in 1 .. MaxTasks : call_approve_task(t)
     /\ UNCHANGED dialogVars
  \/ /\ \E t \in 1 .. MaxTasks : call_reject_task(t)
     /\ UNCHANGED dialogVars
  \/ /\ \E actor \in Users, action \in {"apr", "rej"}, t \in 1 .. MaxTasks :
          call_handle_task_action(actor, action, t)
     /\ UNCHANGED dialogVars

SpecOps == InitOps /\ [][NextOps]_vars


\* ------------------------------------------------- the price of a task
TaskPrices == {20, 35}

\* settings/main_config is read afresh by every get_config call (main.py:
\* 117-130, bot.py:85-93).  No handler of either revision writes task_price:
\* the key changes only when the document is edited in the store.
StoreTaskPrice(p) ==
  /\ config.task_price # Flt(p)
  /\ config' = [config EXCEPT !.task_price = Flt(p)]
  /\ UNCHANGED <<rev, users, tasks, withdrawals, seen_reviews, feed, now, bg,
                 notified, adminOps, last>>

\* Submission and settlement while the configured price changes.
NextPrice ==
  \/ /\ \E a \in AppIds : add_app_name(a, "App")
     /\ UNCHANGED dialogVars
  \/ /\ \E p \in TaskPrices : StoreTaskPrice(p)
     /\ UNCHANGED dialogVars
  \/ /\ \E u \in Users, a \in AppIds, n \in TaskNameTexts : save_task(u, a, n)
     /\ UNCHANGED dialogVars
  \/ /\ \E a \in AppIds, n \in ReviewAuthors, s \in Ratings : PostReview(a, n, s)
     /\ UNCHANGED dialogVars
  \/ /\ \E actor \in Users, action \in {"apr", "rej"}, t \in 1 .. MaxTasks :
          handle_task_action(actor, action, t)
     /\ UNCHANGED dialogVars
  \/ /\ run_automation
     /\ UNCHANGED dialogVars
  \/ /\ run_automation_and_alerts
     /\ UNCHANGED dialogVars

SpecPrice == Init /\ [][NextPrice]_vars


\* ---------------------------------------------------- the matching rule
\* The sweeps of both revisions over a store with two monitored apps: pending
\* tasks as save_task leaves them and a feed with at most one review per app.
MatchApps == {"X", "Y"}

PendingTask(u, a, name_text) ==
  [user_id |-> u, app_id |-> a, review_name |-> strip(name_text),
   status |-> "pending", submitted_at |-> 0, price |-> Flt(DEFAULT_TASK_PRICE),
   credited |-> 0, bonused |-> 0, attempts |-> 0, paid |-> Flt(0)]

\* The pages the feed can return for app a: empty, or one review.
Pages(a) ==
  {<<>>} \cup {<<[id |-> IF a = "X" THEN 1 ELSE 2, userName |-> n, score |-> s, at |-> 0]>> :
                 n \in ReviewAuthors, s \in Ratings}

InitMatch ==
  \E r \in {"main", "bot"}, n \in 1 .. MaxTasks :
    \E app \in [1 .. n -> MatchApps], name \in [1 .. n -> TaskNameTexts],
       f \in [MatchApps -> UNION {Pages(a) : a \in MatchApps}] :
      /\ \A a \in MatchApps : f[a] \in Pages(a)
      /\ rev = r
      /\ tasks = [t \in 1 .. n |-> PendingTask(2, app[t], name[t])]
      /\ users = [u \in Users |-> NewUser(u, IF u = 2 THEN 1 ELSE None)]
      /\ config = [DefaultConfig EXCEPT !.monitored_apps =
                     <<[id |-> "X", name |-> "App"], [id |-> "Y", name |-> "App"]>>]
      /\ feed = f
      /\ withdrawals = <<>>
      /\ seen_reviews = {}
      /\ now = 0
      /\ bg = bgIdle
      /\ notified = {}
      /\ adminOps = 0
      /\ last = NoStep
      /\ DialogIdle

NextMatch ==
  \/ /\ run_automation
     /\ UNCHANGED dialogVars
  \/ /\ run_automation_and_alerts
     /\ UNCHANGED dialogVars

SpecMatch == InitMatch /\ [][NextMatch]_vars


\* ------------------------------------------------- manual settlement
\* The buttons under submitted tasks and withdrawal requests of main.py,
\* pressed by any account, over a store with pending tasks.
InitManual ==
  \E n \in 1 .. MaxTasks :
    \E owner \in [1 .. n -> Users] :
      /\ rev = "main"
      /\ tasks = [t \in 1 .. n |-> PendingTask(owner[t], "X", <<"b">>)]
      /\ users = [u \in Users |-> NewUser(u, IF u = 2 THEN 1 ELSE None)]
      /\ config = [DefaultConfig EXCEPT !.monitored_apps = <<[id |-> "X", name |-> "App"]>>]
      /\ withdrawals = <<>>
      /\ seen_reviews = {}
      /\ feed = [a \in AppIds |-> <<>>]
      /\ now = 0
      /\ bg = bgIdle
      /\ notified = {}
      /\ adminOps = 0
      /\ last = NoStep
      /\ DialogIdle

NextManual ==
  \/ /\ \E u \in Users, x \in AdminTexts : user_balance_update(u, "add", x)
     /\ UNCHANGED dialogVars
  \/ /\ \E u \in Users, x \in {"60"} : withdraw_amount(u, x)
     /\ UNCHANGED dialogVars
  \/ /\ \E actor \in Users, action \in {"apr", "rej"}, w \in 1 .. MaxWithdrawals :
          handle_withdrawal_action(actor, action, w)
     /\ UNCHANGED dialogVars
  \/ /\ \E actor \in Users, action \in {"apr", "rej"}, t \in 1 .. MaxTasks :
          call_handle_task_action(actor, action, t)
     /\ UNCHANGED dialogVars

SpecManual == InitManual /\ [][NextManual]_vars


\* ------------------------------------------------------ working hours
\* A time of day in seconds since midnight.
At(h, m, sec) == h * 3600 + m * 60 + sec

\* The values work_start_time and work_end_time are drawn from: texts that
\* set_time_start_save (main.py:919-927) accepts, and one it would not.
TimeTexts == {"02:00", "10:00", "22:00", "abc"}

\* The readings of the clock.
ClockTimes == {At(1, 0, 0), At(2, 0, 0), At(9, 59, 0), At(10, 0, 0), Noon,
               At(22, 0, 0), At(22, 0, 30), At(23, 0, 0)}

\* datetime.strptime(text, "%H:%M").time(); ok is FALSE where it raises
\* ValueError.
strptime(text) ==
  CASE text = "02:00" -> [ok |-> TRUE, val |-> At(2, 0, 0)]
    [] text = "10:00" -> [ok |-> TRUE, val |-> At(10, 0, 0)]
    [] text = "22:00" -> [ok |-> TRUE, val |-> At(22, 0, 0)]
    [] OTHER -> [ok |-> FALSE, val |-> 0]

\* is_working_hour (main.py:139-154) for the settings cfg and the clock
\* reading clk; any exception answers True (152-153).
is_working_hour(cfg, clk) ==
  LET start == strptime(cfg.work_start_time)
      end == strptime(cfg.work_end_time)
  IN IF ~start.ok \/ ~end.ok THEN TRUE
     ELSE IF start.val < end.val
     THEN start.val <= clk /\ clk <= end.val
     ELSE clk >= start.val \/ clk <= end.val

\* The clock moves on within the day.
ClockAdvance ==
  /\ \E c \in ClockTimes : c > clock /\ clock' = c
  /\ UNCHANGED <<rev, config, users, tasks, withdrawals, seen_reviews, feed, now, bg,
                 notified, adminOps, last, conv, user_data, update>>

\* One call of is_working_hour(); last.text is the value returned.
call_is_working_hour ==
  /\ last' = [op |-> "is_working_hour", by |-> None, arg |-> clock,
              text |-> IF is_working_hour(config, clock) THEN "True" ELSE "False"]
  /\ UNCHANGED <<rev, config, users, tasks, withdrawals, seen_reviews, feed, now, bg,
                 notified, adminOps, conv, user_data, clock, update>>

\* is_working_hour over every window and every reading of the clock.
InitHours ==
  \E st \in TimeTexts, en \in TimeTexts, c \in ClockTimes :
    /\ rev = "main"
    /\ config = [DefaultConfig EXCEPT !.work_start_time = st, !.work_end_time = en]
    /\ users = [u \in Users |-> NewUser(u, IF u = 2 THEN 1 ELSE None)]
    /\ tasks = <<>>
    /\ withdrawals = <<>>
    /\ seen_reviews = {}
    /\ feed = [a \in AppIds |-> <<>>]
    /\ now = 0
    /\ bg = bgIdle
    /\ notified = {}
    /\ adminOps = 0
    /\ last = NoStep
    /\ conv = [u \in Users |-> [f \in Flows |-> END]]
    /\ user_data = [u \in Users |-> NoData]
    /\ clock = c
    /\ update = NoUpdate

NextHours ==
  \/ ClockAdvance
  \/ call_is_working_hour

SpecHours == InitHours /\ [][NextHours]_vars


\* ------------------------------------- the user dialogs (both revisions)
\* Callback data of the buttons of the two user flows and the texts a user
\* types; the keys email, dev, wd_method and wd_number are stored and only
\* echoed, they are left out.
CallbackData == {"submit_task", "sel_X", "select_app_X", "cancel", "cancel_task",
                 "start_withdraw", "m_bkash"}
DialogTexts == {"b", "60"}

\* update.message.text as a sequence of characters.
Chars(text) == IF text = "b" THEN <<"b">> ELSE <<"6", "0">>

\* pattern="^cancel"
matches_cancel(d) == d \in {"cancel", "cancel_task"}

\* The callback the task ConversationHandler has for callback data d of user
\* u, "none" when no handler of it matches (main.py:1198-1208, bot.py:542-552).
task_conv_callback(u, d) ==
  IF conv[u]["task"] = END
  THEN IF d = "submit_task" THEN "start_task_submission" ELSE "none"
  ELSE IF rev = "main"
  THEN IF conv[u]["task"] = "T_APP_SELECT" /\ d = "sel_X" THEN "app_selected"
       ELSE IF matches_cancel(d) THEN "cancel_conv"
       ELSE "none"
  ELSE IF conv[u]["task"] = "TASK_NAME" /\ d \in {"select_app_X", "cancel_task"}
       THEN "app_selected"
       ELSE "none"

\* The same for the withdrawal ConversationHandler (main.py:1210-1218).
wd_conv_callback(u, d) ==
  IF rev # "main" THEN "none"
  ELSE IF conv[u]["wd"] = END
  THEN IF d = "start_withdraw" THEN "withdraw_start" ELSE "none"
  ELSE IF conv[u]["wd"] = "WD_METHOD" /\ d \in {"m_bkash", "cancel"} THEN "withdraw_method"
  ELSE IF matches_cancel(d) THEN "cancel_conv"
  ELSE "none"

\* The callback the task ConversationHandler has for a text message of u.
task_conv_message(u) ==
  IF rev = "main"
  THEN CASE conv[u]["task"] = "T_REVIEW_NAME" -> "get_review_name"
         [] conv[u]["task"] = "T_EMAIL" -> "get_email"
         [] conv[u]["task"] = "T_DEVICE" -> "get_device"
         [] conv[u]["task"] = "T_SS" -> "save_task"
         [] OTHER -> "none"
  ELSE CASE conv[u]["task"] = "TASK_EMAIL" -> "get_review_name"
         [] conv[u]["task"] = "TASK_DEVICE" -> "get_email"
         [] conv[u]["task"] = "TASK_SS" -> "get_device"
         [] conv[u]["task"] = "TASK_NAME" -> "save_task"
         [] OTHER -> "none"

wd_conv_message(u) ==
  IF rev # "main" THEN "none"
  ELSE CASE conv[u]["wd"] = "WD_NUMBER" -> "withdraw_number"
         [] conv[u]["wd"] = "WD_AMOUNT" -> "withdraw_amount"
         [] OTHER -> "none"

SetConv(u, f, st) == [conv EXCEPT ![u][f] = st]

\* start_task_submission (main.py:416-446, bot.py:233-260): the state returned.
start_task_submission(u) ==
  IF rev = "main"
  THEN IF ~is_working_hour(config, clock) THEN END
       ELSE IF config.monitored_apps = <<>> THEN END
       ELSE "T_APP_SELECT"
  ELSE IF users[u].is_blocked THEN END
       ELSE IF config.monitored_apps = <<>> THEN END
       ELSE "TASK_NAME"

\* app_selected (main.py:448-461, bot.py:263-278): the state returned.
app_selected(d) ==
  IF rev = "main" THEN "T_REVIEW_NAME"
  ELSE IF d = "cancel_task" THEN END ELSE "TASK_EMAIL"

\* withdraw_start (main.py:294-310): the state returned.
withdraw_start(u) ==
  IF flt(users[u].balance, config.min_withdraw) THEN END ELSE "WD_METHOD"

\* save_task of bot.py (302-328) with the keys user_data holds.
bot_save_task(u) ==
  /\ Len(tasks) < MaxTasks
  /\ tasks' = Append(tasks,
       [user_id |-> u, app_id |-> user_data[u].tid, review_name |-> user_data[u].rname,
        status |-> "pending", submitted_at |-> now, price |-> config.task_price,
        credited |-> 0, bonused |-> 0, attempts |-> 0, paid |-> Flt(0)])
  /\ UNCHANGED <<rev, config, users, withdrawals, seen_reviews, feed, now, bg,
                 notified, adminOps, last>>


\* A callback query with data d from user u: the first conversation handler
\* with a matching callback runs it; an update nothing matches is dropped.
callback_query(u, d) ==
  LET f == IF task_conv_callback(u, d) # "none" THEN "task"
           ELSE IF wd_conv_callback(u, d) # "none" THEN "wd" ELSE "none"
      h == IF f = "task" THEN task_conv_callback(u, d) ELSE wd_conv_callback(u, d)
  IN /\ update' = [from |-> u, kind |-> "callback", data |-> d, flow |-> f, handler |-> h]
     /\ conv' = CASE h = "start_task_submission" ->
                       SetConv(u, "task", start_task_submission(u))
                 [] h = "app_selected" -> SetConv(u, "task", app_selected(d))
                 [] h = "withdraw_start" -> SetConv(u, "wd", withdraw_start(u))
                 [] h = "withdraw_method" ->
                       SetConv(u, "wd", IF d = "cancel" THEN END ELSE "WD_NUMBER")
                 [] h = "cancel_conv" -> SetConv(u, f, END)
                 [] OTHER -> conv
     /\ user_data' = IF h = "app_selected" /\ d # "cancel_task"
                      THEN [user_data EXCEPT ![u].tid = "X",
                                             ![u].path = Append(@, "select_app")]
                      ELSE IF h = "start_task_submission" /\ start_task_submission(u) # END
                      THEN [user_data EXCEPT ![u].path = <<>>]
                      ELSE user_data
     /\ UNCHANGED <<rev, config, users, tasks, withdrawals, seen_reviews, feed, now, bg,
                    notified, adminOps, last, clock>>

\* A text message from user u (filters.TEXT & ~filters.COMMAND).
message(u, text) ==
  LET f == IF task_conv_message(u) # "none" THEN "task"
           ELSE IF wd_conv_message(u) # "none" THEN "wd" ELSE "none"
      h == IF f = "task" THEN task_conv_message(u) ELSE wd_conv_message(u)
  IN /\ update' = [from |-> u, kind |-> "message", data |-> text, flow |-> f, handler |-> h]
     /\ clock' = clock
     /\ CASE h = "save_task" ->
               /\ IF rev = "main" THEN save_task(u, user_data[u].tid, user_data[u].rname)
                  ELSE bot_save_task(u)
               /\ conv' = SetConv(u, "task", END)
               /\ user_data' = user_data
          [] h = "withdraw_amount" ->
               /\ withdraw_amount(u, text)
               /\ conv' = SetConv(u, "wd", END)
               /\ user_data' = user_data
          [] h = "get_review_name" ->
               /\ conv' = SetConv(u, "task", IF rev = "main" THEN "T_EMAIL" ELSE "TASK_DEVICE")
               /\ user_data' = [user_data EXCEPT ![u].rname = strip(Chars(text)),
                                                 ![u].path = Append(@, "enter_name")]
               /\ UNCHANGED <<rev, config, users, tasks, withdrawals, seen_reviews, feed,
                              now, bg, notified, adminOps, last>>
          [] h \in {"get_email", "get_device", "withdraw_number"} ->
               /\ conv' = SetConv(u, f,
                            CASE h = "get_email" -> IF rev = "main" THEN "T_DEVICE" ELSE "TASK_SS"
                              [] h = "get_device" -> IF rev = "main" THEN "T_SS" ELSE END
                              [] OTHER -> "WD_AMOUNT")
               /\ user_data' = CASE h = "get_email" ->
                                     [user_data EXCEPT ![u].path = Append(@, "enter_email")]
                                 [] h = "get_device" ->
                                     [user_data EXCEPT ![u].path = Append(@, "enter_device")]
                                 [] OTHER -> user_data
               /\ UNCHANGED <<rev, config, users, tasks, withdrawals, seen_reviews, feed,
                              now, bg, notified, adminOps, last>>
          [] OTHER ->
               UNCHANGED <<rev, config, users, tasks, withdrawals, seen_reviews, feed,
                           now, bg, notified, adminOps, last, conv, user_data>>

\* The user of the dialogs, the windows and the clock readings drawn.
DialogUsers == {2}
Windows == {<<"10:00", "22:00">>, <<"10:00", "10:00">>}

InitDialog ==
  \E r \in {"main", "bot"}, w \in Windows, c \in {Noon, At(23, 0, 0)} :
    /\ rev = r
    /\ config = [DefaultConfig EXCEPT !.monitored_apps = <<[id |-> "X", name |-> "App"]>>,
                                      !.work_start_time = w[1], !.work_end_time = w[2]]
    /\ users = [u \in Users |->
                  [NewUser(u, IF u = 2 THEN 1 ELSE None) EXCEPT
                     !.balance = Flt(3 * DEFAULT_TASK_PRICE)]]
    /\ tasks = <<>>
    /\ withdrawals = <<>>
    /\ seen_reviews = {}
    /\ feed = [a \in AppIds |-> <<>>]
    /\ now = 0
    /\ bg = bgIdle
    /\ notified = {}
    /\ adminOps = 0
    /\ last = NoStep
    /\ conv = [u \in Users |-> [f \in Flows |-> END]]
    /\ user_data = [u \in Users |-> NoData]
    /\ clock = c
    /\ update = NoUpdate

NextDialog ==
  \/ \E u \in DialogUsers, d \in CallbackData : callback_query(u, d)
  \/ \E u \in DialogUsers, x \in DialogTexts : message(u, x)

SpecDialog == InitDialog /\ [][NextDialog]_vars


\* The user dialogs of a day on which time passes between the updates.
NextShift ==
  \/ NextDialog
  \/ ClockAdvance

SpecShift == InitDialog /\ [][NextShift]_vars


\* ------------------------------------------- main.py: the admin dialogs
\* The admin conversations modelled, in the order of registration, with the
\* callback data, callback and first state of their entry points
\* (main.py:1220-1255, 1267-1297).  The edit conversation is entered from
\* the buttons of edit_text_start's key_map (main.py:1022).
AdminFlows == <<"add_app", "rmv_app", "find_user", "edit", "set_time_start",
                "set_time_end", "add_admin", "rmv_admin", "set_log">>

key_map == ("ed_txt_rules" :> "rules_text") @@ ("ed_txt_referral_bonus" :> "referral_bonus")

Entry ==
  [add_app |-> [data |-> {"add_app"}, handler |-> "add_app_start", state |-> "ADD_APP_ID"],
   rmv_app |-> [data |-> {"rmv_app"}, handler |-> "rmv_app_start",
                state |-> "REMOVE_APP_SELECT"],
   find_user |-> [data |-> {"find_user"}, handler |-> "find_user_start",
                  state |-> "ADMIN_USER_SEARCH"],
   edit |-> [data |-> DOMAIN key_map, handler |-> "edit_text_start",
             state |-> "ADMIN_EDIT_TEXT_VAL"],
   set_time_start |-> [data |-> {"set_time_start"}, handler |-> "set_time_start_handler",
                       state |-> "ADMIN_SET_START_TIME"],
   set_time_end |-> [data |-> {"set_time_end"}, handler |-> "set_time_end_handler",
                     state |-> "ADMIN_SET_END_TIME"],
   add_admin |-> [data |-> {"add_new_admin"}, handler |-> "add_admin_start",
                  state |-> "ADMIN_ADD_ADMIN_ID"],
   rmv_admin |-> [data |-> {"rmv_admin_role"}, handler |-> "rmv_admin_start",
                  state |-> "ADMIN_RMV_ADMIN_ID"],
   set_log |-> [data |-> {"set_log_id"}, handler |-> "set_log_start",
                state |-> "ADMIN_SET_LOG_CHANNEL"]]

UserActionData == {"u_add_bal", "u_cut_bal", "u_toggle_block", "u_toggle_admin", "cancel"}

\* The buttons rmv_app_start draws for the apps (main.py:1138).
RemoveData == {"rm_0"}

AdminCallbackData == UNION {Entry[f].data : f \in DOMAIN Entry} \cup UserActionData
                       \cup RemoveData \cup {"admin_panel"}

\* The buttons of the conversations that write settings/main_config.
ConfigEntryData ==
  UNION {Entry[f].data : f \in {"add_app", "rmv_app", "edit", "set_log"}} \cup RemoveData

\* str.strip() of a typed text.
strip_text(text) == IF text = " 02:00 " THEN "02:00" ELSE text

\* int(query.data.split("rm_")[1]) of rmv_app_sel (main.py:1150); an index
\* of no app when it raises.
IdxOf(d) == IF d = "rm_0" THEN 0 ELSE 0 - 1

\* del apps[idx] (main.py:1155), idx counted from 0.
DelAt(apps, idx) ==
  [i \in 1 .. Len(apps) - 1 |-> IF i <= idx THEN apps[i] ELSE apps[i + 1]]

\* edit_text_save (main.py:1035-1047): the config left by the value text for
\* the key chosen in edit_text_start; the numeric keys take a float or nothing.
edit_text_save_unchecked(cfg, key, text) ==
  [cfg EXCEPT ![key] = IF key \in {"referral_bonus", "min_withdraw"}
                       THEN float(text).val ELSE text]

edit_text_save(cfg, key, text) ==
  IF key \in {"referral_bonus", "min_withdraw"}
  THEN IF float(text).ok THEN [cfg EXCEPT ![key] = float(text).val] ELSE cfg
  ELSE [cfg EXCEPT ![key] = text]

\* The user id a typed text denotes (uid.isdigit()), None when it is no id.
IdOf(text) == CASE text = "1" -> 1 [] text = "2" -> 2 [] OTHER -> None

\* The key of users/<text>: the id a numeric text denotes; any other text
\* names a document of its own, which is no user's.
OtherKey == 0 - 1
DocKey(text) == IF IdOf(text) # None THEN IdOf(text) ELSE OtherKey

\* The callback conversation f has for callback data d of user u.  The
\* fallback of these conversations, CallbackQueryHandler(cancel_conv), has no
\* pattern and matches every callback query.
admin_conv_callback(u, f, d) ==
  IF conv[u][f] = END
  THEN IF d \in Entry[f].data THEN Entry[f].handler ELSE "none"
  ELSE IF conv[u][f] = "ADMIN_USER_ACTION" /\ d \in UserActionData
  THEN "user_action_handler"
  ELSE IF conv[u][f] = "REMOVE_APP_SELECT" THEN "rmv_app_sel"
  ELSE "cancel_conv"

\* The callback conversation f has for a text message of user u.
admin_conv_message(u, f) ==
  CASE conv[u][f] = "ADMIN_USER_SEARCH" -> "find_user_result"
    [] conv[u][f] = "ADMIN_USER_AMOUNT" -> "user_balance_update"
    [] conv[u][f] = "ADMIN_SET_START_TIME" -> "set_time_start_save"
    [] conv[u][f] = "ADMIN_SET_END_TIME" -> "set_time_end_save"
    [] conv[u][f] = "ADMIN_ADD_ADMIN_ID" -> "add_admin_save"
    [] conv[u][f] = "ADMIN_RMV_ADMIN_ID" -> "rmv_admin_save"
    [] conv[u][f] = "ADD_APP_ID" -> "add_app_id"
    [] conv[u][f] = "ADD_APP_NAME" -> "add_app_name"
    [] conv[u][f] = "ADMIN_EDIT_TEXT_VAL" -> "edit_text_save"
    [] conv[u][f] = "ADMIN_SET_LOG_CHANNEL" -> "set_log_save"
    [] OTHER -> "none"

\* The first admin conversation, in the order of registration, with a
\* callback for the update; "none" when there is none.
FirstFlow(hit) ==
  LET I == {i \in DOMAIN AdminFlows : hit[AdminFlows[i]] # "none"}
  IN IF I = {} THEN "none" ELSE AdminFlows[CHOOSE i \in I : \A j \in I : i <= j]

\* A users document written with merge=True: the named flag is set, a
\* missing document is created with that flag only (and id and name in
\* rmv_admin_save): it is not full, and the keys it lacks are held here with
\* the defaults the .get() reads of the code give them.
SetFlag(U, uid, key, val) ==
  LET doc == IF uid \in DOMAIN U THEN U[uid]
             ELSE [NewUser(uid, None) EXCEPT !.is_admin = FALSE, !.full = FALSE]
  IN [x \in DOMAIN U \cup {uid} |->
       IF x # uid THEN U[x]
       ELSE IF key = "is_admin" THEN [doc EXCEPT !.is_admin = val]
       ELSE [doc EXCEPT !.is_blocked = val]]

\* create_user (main.py:170-184, bot.py:107-122): nothing for a user that has
\* a document.  bot.py stores the referrer without comparing it to the user.
create_user(U, uid, referrer_id) ==
  IF uid \in DOMAIN U THEN U
  ELSE [x \in DOMAIN U \cup {uid} |->
          IF x # uid THEN U[x]
          ELSE IF rev = "main" THEN NewUser(uid, referrer_id)
          ELSE [NewUser(uid, None) EXCEPT !.referrer = referrer_id]]


\* A callback query of user u with data d, as main.py dispatches it among the
\* admin handlers: admin_panel is registered before every conversation
\* (main.py:1182) and is the one callback here that asks is_admin (656).
admin_callback_query(u, d) ==
  LET hit == [f \in {AdminFlows[i] : i \in DOMAIN AdminFlows} |-> admin_conv_callback(u, f, d)]
      f == IF d = "admin_panel" THEN "none" ELSE FirstFlow(hit)
      h == IF d = "admin_panel" THEN "admin_panel"
           ELSE IF f = "none" THEN "none" ELSE hit[f]
      uid == user_data[u].mng_uid
      apps == config.monitored_apps
  IN /\ rev = "main"
     /\ update' = [from |-> u, kind |-> "callback", data |-> d, flow |-> f, handler |-> h]
     /\ CASE h = "edit_text_start" ->
               /\ user_data' = [user_data EXCEPT ![u].edit_key = key_map[d]]
               /\ conv' = SetConv(u, f, Entry[f].state)
               /\ UNCHANGED <<users, config>>
          [] h = "rmv_app_start" ->
               /\ conv' = SetConv(u, f, IF apps = <<>> THEN END ELSE Entry[f].state)
               /\ user_data' = [user_data EXCEPT ![u].menu = apps]
               /\ UNCHANGED <<users, config>>
          [] h = "rmv_app_sel" ->
               /\ config' = IF 0 <= IdxOf(d) /\ IdxOf(d) < Len(apps)
                             THEN [config EXCEPT !.monitored_apps = DelAt(apps, IdxOf(d))]
                             ELSE config
               /\ conv' = SetConv(u, f, END)
               /\ user_data' = [user_data EXCEPT ![u].menu = <<>>]
               /\ UNCHANGED users
          [] h \in {Entry[x].handler : x \in DOMAIN Entry}
                 \ {"edit_text_start", "rmv_app_start"} ->
               /\ conv' = SetConv(u, f, Entry[f].state)
               /\ UNCHANGED <<users, user_data, config>>
          [] h = "cancel_conv" ->
               /\ conv' = SetConv(u, f, END)
               /\ UNCHANGED <<users, user_data, config>>
          [] h = "user_action_handler" /\ d = "cancel" ->
               /\ conv' = SetConv(u, f, END)
               /\ UNCHANGED <<users, user_data, config>>
          [] h = "user_action_handler" /\ d = "u_toggle_block" ->
               /\ users' = [users EXCEPT ![uid].is_blocked = ~@]
               /\ conv' = SetConv(u, f, END)
               /\ UNCHANGED <<user_data, config>>
          [] h = "user_action_handler" /\ d = "u_toggle_admin" ->
               IF uid = OWNER_ID
               THEN UNCHANGED <<users, conv, user_data, config>>
               ELSE /\ users' = [users EXCEPT ![uid].is_admin = ~@]
                    /\ conv' = SetConv(u, f, END)
                    /\ UNCHANGED <<user_data, config>>
          [] h = "user_action_handler" /\ d \in {"u_add_bal", "u_cut_bal"} ->
               /\ user_data' = [user_data EXCEPT ![u].bal_action =
                                   IF d = "u_add_bal" THEN "add" ELSE "cut"]
               /\ conv' = SetConv(u, f, "ADMIN_USER_AMOUNT")
               /\ UNCHANGED <<users, config>>
          [] OTHER -> UNCHANGED <<users, conv, user_data, config>>
     /\ UNCHANGED <<rev, tasks, withdrawals, seen_reviews, feed, now, bg,
                    notified, adminOps, last, clock>>

\* A text message of user u, as main.py dispatches it among the admin
\* conversations: the first one, in the order of registration, whose state
\* has a message handler takes it.
admin_message(u, text) ==
  LET hit == [f \in {AdminFlows[i] : i \in DOMAIN AdminFlows} |-> admin_conv_message(u, f)]
      f == FirstFlow(hit)
      h == IF f = "none" THEN "none" ELSE hit[f]
      uid == DocKey(text)
  IN /\ rev = "main"
     /\ update' = [from |-> u, kind |-> "message", data |-> text, flow |-> f, handler |-> h]
     /\ clock' = clock
     /\ CASE h = "find_user_result" ->
               /\ IF uid \in DOMAIN users
                  THEN /\ user_data' = [user_data EXCEPT ![u].mng_uid = uid]
                       /\ conv' = SetConv(u, f, "ADMIN_USER_ACTION")
                  ELSE UNCHANGED <<user_data, conv>>
               /\ UNCHANGED <<config, users, withdrawals, adminOps, last>>
          [] h = "user_balance_update" ->
               /\ user_balance_update(user_data[u].mng_uid, user_data[u].bal_action, text)
               /\ conv' = SetConv(u, f, END)
               /\ user_data' = user_data
          [] h = "set_time_start_save" ->
               /\ config' = IF strptime(strip_text(text)).ok
                             THEN [config EXCEPT !.work_start_time = strip_text(text)]
                             ELSE config
               /\ conv' = SetConv(u, f, END)
               /\ UNCHANGED <<users, withdrawals, adminOps, last, user_data>>
          [] h = "set_time_end_save" ->
               /\ config' = IF strptime(strip_text(text)).ok
                             THEN [config EXCEPT !.work_end_time = strip_text(text)]
                             ELSE config
               /\ conv' = SetConv(u, f, END)
               /\ UNCHANGED <<users, withdrawals, adminOps, last, user_data>>
          [] h = "add_admin_save" ->
               /\ users' = IF IdOf(text) # None
                            THEN SetFlag(users, uid, "is_admin", TRUE) ELSE users
               /\ conv' = SetConv(u, f, END)
               /\ UNCHANGED <<config, withdrawals, adminOps, last, user_data>>
          [] h = "rmv_admin_save" ->
               /\ users' = IF uid = OWNER_ID THEN users
                            ELSE SetFlag(users, uid, "is_admin", FALSE)
               /\ conv' = SetConv(u, f, END)
               /\ UNCHANGED <<config, withdrawals, adminOps, last, user_data>>
          [] h = "add_app_id" ->
               /\ user_data' = [user_data EXCEPT ![u].nid = text]
               /\ conv' = SetConv(u, f, "ADD_APP_NAME")
               /\ UNCHANGED <<config, users, withdrawals, adminOps, last>>
          [] h = "add_app_name" ->
               /\ add_app_name(user_data[u].nid, text)
               /\ conv' = SetConv(u, f, END)
               /\ user_data' = user_data
          [] h = "edit_text_save" ->
               /\ config' = edit_text_save(config, user_data[u].edit_key, text)
               /\ conv' = SetConv(u, f, END)
               /\ UNCHANGED <<users, withdrawals, adminOps, last, user_data>>
          [] h = "set_log_save" ->
               /\ config' = [config EXCEPT !.log_channel_id = strip_text(text)]
               /\ conv' = SetConv(u, f, END)
               /\ UNCHANGED <<users, withdrawals, adminOps, last, user_data>>
          [] OTHER ->
               UNCHANGED <<config, users, withdrawals, adminOps, last, conv, user_data>>
     /\ UNCHANGED <<rev, tasks, seen_reviews, feed, now, bg, notified>>

\* start (main.py:208-212, bot.py:164-172): /start with the argument arg,
\* None when there is none; args[0] is taken as the referrer when it is
\* numeric.
start(u, arg) ==
  /\ update' = [from |-> u, kind |-> "command", data |-> arg, flow |-> "none",
                handler |-> "start"]
  /\ users' = create_user(users, u, IF arg # "" THEN IdOf(arg) ELSE None)
  /\ UNCHANGED <<rev, config, tasks, withdrawals, seen_reviews, feed, now, bg,
                 notified, adminOps, last, conv, user_data, clock>>

\* The account the admin dialogs are driven from; the buttons pressed, the
\* texts typed and the /start arguments drawn in the run of the panel.
AdminActors == {2}
AdminButtons == AdminCallbackData \ (ConfigEntryData \cup {"rmv_admin_role"})
AdminDialogTexts == {"2", "22:00"}
StartArgs == {"", "1"}

InitAdmin ==
  \E r \in {"main", "bot"}, known \in BOOLEAN, adm \in BOOLEAN :
    /\ rev = r
    /\ config = DefaultConfig
    /\ users = [u \in (IF known THEN {1, 2} ELSE {1}) |->
                  [NewUser(u, IF u = 2 THEN 1 ELSE None) EXCEPT
                     !.is_admin = (u = OWNER_ID \/ adm)]]
    /\ tasks = <<>>
    /\ withdrawals = <<>>
    /\ seen_reviews = {}
    /\ feed = [a \in AppIds |-> <<>>]
    /\ now = 0
    /\ bg = bgIdle
    /\ notified = {}
    /\ adminOps = 0
    /\ last = NoStep
    /\ DialogIdle

NextAdmin ==
  \/ \E u \in AdminActors, d \in AdminButtons : admin_callback_query(u, d)
  \/ \E u \in AdminActors, x \in AdminDialogTexts : admin_message(u, x)
  \/ \E u \in AdminActors, a \in StartArgs : start(u, a)

SpecAdmin == InitAdmin /\ [][NextAdmin]_vars

\* The run of the accounts: first contacts with and without a referral
\* argument, and the admin dialogs that write user documents.
AccountButtons ==
  AdminCallbackData \ (ConfigEntryData \cup {"set_time_start", "set_time_end", "admin_panel"})
AccountTexts == {"1", "2"}
AccountArgs == {"", "1", "2"}

NextAccounts ==
  \/ \E u \in AdminActors, d \in AccountButtons : admin_callback_query(u, d)
  \/ \E u \in AdminActors, x \in AccountTexts : admin_message(u, x)
  \/ \E u \in AdminActors, a \in AccountArgs : start(u, a)

SpecAccounts == InitAdmin /\ [][NextAccounts]_vars

\* The run of a blocked account: the owner looks user 2 up and presses
\* Block/Unblock (main.py:984-988) while the user drives the user dialogs.
BlockButtons == {"find_user", "u_toggle_block"}

NextBlocked ==
  \/ NextDialog
  \/ \E d \in BlockButtons : admin_callback_query(OWNER_ID, d)
  \/ admin_message(OWNER_ID, "2")

SpecBlocked == InitDialog /\ [][NextBlocked]_vars


\* The run of the removal menu: two accounts open the menu of rmv_app_start
\* over a list of two apps and press its buttons in any order; an app is
\* added again once the list has room.
RemovalButtons == {"add_app", "rmv_app", "cancel"} \cup RemoveData

InitRemoval ==
  /\ rev = "main"
  /\ config = [DefaultConfig EXCEPT !.monitored_apps =
                 <<[id |-> "X", name |-> "App"], [id |-> "Y", name |-> "App2"]>>]
  /\ users = [u \in Users |-> [NewUser(u, None) EXCEPT !.is_admin = TRUE]]
  /\ tasks = <<>>
  /\ withdrawals = <<>>
  /\ seen_reviews = {}
  /\ feed = [a \in AppIds |-> <<>>]
  /\ now = 0
  /\ bg = bgIdle
  /\ notified = {}
  /\ adminOps = 0
  /\ last = NoStep
  /\ DialogIdle

NextRemoval ==
  \/ \E u \in Users, d \in RemovalButtons : admin_callback_query(u, d)
  \/ \E u \in Users : admin_message(u, "X")

SpecRemoval == InitRemoval /\ [][NextRemoval]_vars


\* The run of the owner's role: account 2 drives the dialogs that write the
\* admin flag, aiming at any id; the owner, with or without a document of
\* their own, presses the buttons under a pending task.
OwnerButtons == {"find_user", "u_toggle_admin", "add_new_admin", "rmv_admin_role"}

InitOwner ==
  \E known \in BOOLEAN :
    /\ rev = "main"
    /\ config = [DefaultConfig EXCEPT !.monitored_apps = <<[id |-> "X", name |-> "App"]>>]
    /\ users = [u \in (IF known THEN {1, 2} ELSE {2}) |-> NewUser(u, None)]
    /\ tasks = [t \in 1 .. MaxTasks |-> PendingTask(2, "X", <<"b">>)]
    /\ withdrawals = <<>>
    /\ seen_reviews = {}
    /\ feed = [a \in AppIds |-> <<>>]
    /\ now = 0
    /\ bg = bgIdle
    /\ notified = {}
    /\ adminOps = 0
    /\ last = NoStep
    /\ DialogIdle

NextOwner ==
  \/ \E d \in OwnerButtons : admin_callback_query(2, d)
  \/ \E x \in AccountTexts : admin_message(2, x)
  \/ start(OWNER_ID, "")
  \/ /\ \E action \in {"apr", "rej"}, t \in 1 .. MaxTasks :
          call_handle_task_action(OWNER_ID, action, t)
     /\ UNCHANGED dialogVars

SpecOwner == InitOwner /\ [][NextOwner]_vars


\* The run of the settings: the owner drives the conversations that write
\* settings/main_config, at most MaxOpen of them open at a time.
MaxOpen == 1
ConfigButtons == ConfigEntryData \cup {"set_time_start", "set_time_end", "cancel"}
ConfigTexts == {"2", " 02:00 "}

InitConfig ==
  /\ rev = "main"
  /\ config = DefaultConfig
  /\ users = [u \in {1} |-> NewUser(u, None)]
  /\ tasks = <<>>
  /\ withdrawals = <<>>
  /\ seen_reviews = {}
  /\ feed = [a \in AppIds |-> <<>>]
  /\ now = 0
  /\ bg = bgIdle
  /\ notified = {}
  /\ adminOps = 0
  /\ last = NoStep
  /\ DialogIdle

\* The owner presses the button d.
config_button(d) ==
  /\ admin_callback_query(OWNER_ID, d)
  /\ Cardinality({f \in Flows : conv'[OWNER_ID][f] # END}) <= MaxOpen

NextConfig ==
  \/ \E d \in ConfigButtons : config_button(d)
  \/ \E x \in ConfigTexts : admin_message(OWNER_ID, x)

SpecConfig == InitConfig /\ [][NextConfig]_vars

\* The run of the tunables: the conversations that write a tunable of the
\* config, with an owner who answers: a conversation that waits for a text
\* gets one.
TunableButtons == {"ed_txt_referral_bonus", "set_time_start", "set_time_end",
                   "set_log_id", "add_app", "rmv_app"} \cup RemoveData

NextTunables ==
  \/ \E d \in TunableButtons : config_button(d)
  \/ \E x \in ConfigTexts : admin_message(OWNER_ID, x)

\* The owner types a text into a conversation that waits for one.
owner_answers ==
  /\ \E f \in Flows : admin_conv_message(OWNER_ID, f) # "none"
  /\ \E x \in ConfigTexts : admin_message(OWNER_ID, x)

SpecTunables == InitConfig /\ [][NextTunables]_vars /\ WF_vars(owner_answers)

\* The settlement deadline the sweep uses under the config cfg (bot.py:441,
\* timedelta(hours=24); main.py has none).
settlement_deadline(cfg) == DEADLINE_HOURS


\* ------------------------------------------------- concurrent credits
\* The credits of one account arriving in any order: user 2 holds a pending
\* task and a pending withdrawal request already debited from the balance
\* `before`, user 1 (the referrer of user 2) holds a pending task; the tasks
\* are approved, the request is settled and an admin adds money to user 2.
\* Every credit is one Increment of the stored balance (main.py:410, 576,
\* 1013; bot.py:343, 352), so the steps below are the interleavings.
StartBalances == {Flt(3 * DEFAULT_TASK_PRICE), Flt(6 * DEFAULT_TASK_PRICE), Numerals["115.7"]}
RequestedAmount == Numerals["51.4"]
CreditedUser == 2

InitCredits ==
  \E r \in {"main", "bot"}, b \in StartBalances :
    /\ rev = r
    /\ config = [DefaultConfig EXCEPT !.monitored_apps = <<[id |-> "X", name |-> "App"]>>]
    /\ users = [u \in Users |->
                  [NewUser(u, IF u = 2 THEN 1 ELSE None) EXCEPT
                     !.balance = IF u = CreditedUser THEN fadd(b, fneg(RequestedAmount))
                                 ELSE Flt(0)]]
    /\ tasks = <<PendingTask(CreditedUser, "X", <<"b">>), PendingTask(OWNER_ID, "X", <<"c">>)>>
    /\ withdrawals = <<[user_id |-> CreditedUser, amount |-> RequestedAmount,
                        status |-> "pending", before |-> b, touched |-> FALSE,
                        refunds |-> 0, attempts |-> 0, processed_by |-> None]>>
    /\ seen_reviews = {}
    /\ feed = [a \in AppIds |-> <<>>]
    /\ now = 0
    /\ bg = bgIdle
    /\ notified = {}
    /\ adminOps = 0
    /\ last = NoStep
    /\ DialogIdle

NextCredits ==
  \/ /\ \E t \in 1 .. MaxTasks : call_approve_task(t)
     /\ UNCHANGED dialogVars
  \/ /\ \E action \in {"apr", "rej"}, w \in 1 .. MaxWithdrawals :
          handle_withdrawal_action(OWNER_ID, action, w)
     /\ UNCHANGED dialogVars
  \/ /\ \E x \in AdminTexts : user_balance_update(CreditedUser, "add", x)
     /\ UNCHANGED dialogVars

SpecCredits == InitCredits /\ [][NextCredits]_vars


\* ---------------------------------------------- debits and their records
\* The withdrawal requests under failures of the store: every user starts
\* with DebitStart, requests amounts and the owner settles them.
DebitStart == Flt(6 * DEFAULT_TASK_PRICE)
DebitTexts == {"abc", "40", "60", "120"}
DebitFailAt == 0 .. 4

InitDebit ==
  /\ rev = "main"
  /\ config = DefaultConfig
  /\ users = [u \in Users |->
                [NewUser(u, IF u = 2 THEN 1 ELSE None) EXCEPT
                   !.balance = DebitStart]]
  /\ tasks = <<>>
  /\ withdrawals = <<>>
  /\ seen_reviews = {}
  /\ feed = [a \in AppIds |-> <<>>]
  /\ now = 0
  /\ bg = bgIdle
  /\ notified = {}
  /\ adminOps = 0
  /\ last = NoStep
  /\ DialogIdle

NextDebit ==
  \/ /\ \E u \in Users, x \in DebitTexts, k \in DebitFailAt : withdraw_amount_until(u, x, k)
     /\ UNCHANGED dialogVars
  \/ /\ \E action \in {"apr", "rej"}, w \in 1 .. MaxWithdrawals :
          handle_withdrawal_action(OWNER_ID, action, w)
     /\ UNCHANGED dialogVars

SpecDebit == InitDebit /\ [][NextDebit]_vars


\* ------------------------------------------------------ reading the config
\* A value of each key that differs from the key's default.
OtherConfig ==
  [task_price |-> Flt(DEFAULT_TASK_PRICE + DEFAULT_REFERRAL_BONUS),
   referral_bonus |-> Flt(2 * DEFAULT_REFERRAL_BONUS),
   min_withdraw |-> Flt(2 * DEFAULT_MIN_WITHDRAW),
   monitored_apps |-> <<[id |-> "X", name |-> "App"]>>,
   work_start_time |-> "02:00", work_end_time |-> "10:00",
   log_channel_id |-> "2", rules_text |-> "2"]

\* The states of settings/main_config: no document, or a document holding
\* any subset of the keys.
StoredConfigs ==
  {[exists |-> FALSE, data |-> <<>>]} \cup
  {[exists |-> TRUE, data |-> [k \in K |-> OtherConfig[k]]] : K \in SUBSET DOMAIN DefaultConfig}

\* get_config (main.py:117-131, bot.py:85-93) over the document doc, the read
\* succeeding or raising: what the call returns or that it raises, and the
\* document it leaves.  main.py fills the missing keys from DEFAULT_CONFIG and
\* answers DEFAULT_CONFIG on any exception; bot.py returns the document as it
\* is and has no handler.  Both write the defaults when there is no document.
get_config(doc, read_ok) ==
  IF ~read_ok
  THEN [raised |-> rev = "bot", value |-> IF rev = "main" THEN DefaultConfig ELSE <<>>,
        doc |-> doc]
  ELSE IF ~doc.exists
  THEN [raised |-> FALSE, value |-> DefaultConfig,
        doc |-> [exists |-> TRUE, data |-> DefaultConfig]]
  ELSE [raised |-> FALSE,
        value |-> IF rev = "main"
                  THEN [k \in DOMAIN DefaultConfig \cup DOMAIN doc.data |->
                          IF k \in DOMAIN doc.data THEN doc.data[k] ELSE DefaultConfig[k]]
                  ELSE doc.data,
        doc |-> doc]

\* One call of get_config; config holds the document's state here.
call_get_config(read_ok) ==
  /\ last' = [op |-> "get_config", by |-> None,
              arg |-> [raised |-> get_config(config, read_ok).raised,
                       value |-> get_config(config, read_ok).value],
              text |-> IF read_ok THEN "read" ELSE "read failed"]
  /\ config' = get_config(config, read_ok).doc
  /\ UNCHANGED <<rev, users, tasks, withdrawals, seen_reviews, feed, now, bg, notified,
                 adminOps>>

InitConfigRead ==
  \E r \in {"main", "bot"}, c \in StoredConfigs :
    /\ rev = r
    /\ config = c
    /\ users = [u \in Users |-> NewUser(u, IF u = 2 THEN 1 ELSE None)]
    /\ tasks = <<>>
    /\ withdrawals = <<>>
    /\ seen_reviews = {}
    /\ feed = [a \in AppIds |-> <<>>]
    /\ now = 0
    /\ bg = bgIdle
    /\ notified = {}
    /\ adminOps = 0
    /\ last = NoStep
    /\ DialogIdle

NextConfigRead ==
  \/ /\ \E ok \in BOOLEAN : call_get_config(ok)
     /\ UNCHANGED dialogVars

SpecConfigRead == InitConfigRead /\ [][NextConfigRead]_vars


\* ------------------------------------------- failures of the environment
\* The faults a step of the sweep can meet, and the store call of
\* approve_task that raises (0: none does).
Faults == {"none", "store", "feed", "send"}
FailAt == 0 .. 5

\* approve_task of main.py (570-580) when its k-th store call raises: the
\* task read (571), the status write (574), the owner's credit (575-578).
approve_task_until(T, U, t, uid, amount, k) ==
  IF k = 1 \/ T[t].status # "pending" THEN [T |-> T, U |-> U]
  ELSE IF k = 2 THEN [T |-> T, U |-> U]
  ELSE IF k = 3 THEN [T |-> SetStatus(T, t, "approved"), U |-> U]
  ELSE [T |-> approve_task(T, U, t, uid, amount).T,
        U |-> approve_task(T, U, t, uid, amount).U]

\* approve_task of bot.py (334-353) when its k-th store call raises: the
\* status write (335), the owner's credit (341), the owner's read (347), and
\* for a referred owner the config read (349) and the referrer's credit (350).
bot_approve_task_until(T, U, t, uid, amount, k) ==
  IF k = 1 THEN [T |-> T, U |-> U]
  ELSE IF k = 2 THEN [T |-> SetStatus(T, t, "approved"), U |-> U]
  ELSE IF k \in {3, 4, 5}
  THEN CreditTask(SetStatus(T, t, "approved"), U, t, uid, amount)
  ELSE bot_approve_task(T, U, t, uid, amount)

\* approve_task(task_id, user_id, amount) called for task t, as the sweep and
\* the admin's button call it, with its k-th store call raising.
call_approve_task_until(t, k) ==
  /\ t \in DOMAIN tasks
  /\ tasks[t].attempts < MaxAttempts
  /\ bg.pc \in {"sleep", "dead"}
  /\ last' = [op |-> "approve_task", by |-> None, arg |-> t, text |-> ""]
  /\ LET r == IF rev = "main"
              THEN approve_task_until(Attempt(tasks, t), users, t, tasks[t].user_id,
                                      tasks[t].price, k)
              ELSE bot_approve_task_until(Attempt(tasks, t), users, t, tasks[t].user_id,
                                          tasks[t].price, k)
     IN tasks' = r.T /\ users' = r.U
  /\ UNCHANGED <<rev, config, withdrawals, seen_reviews, feed, now, bg, notified, adminOps>>

\* Two monitored apps, each with an empty page or a page of one review, and
\* one pending task for the first.
InitFaults ==
  \E r \in {"main", "bot"}, f \in [MatchApps -> UNION {Pages(a) : a \in MatchApps}] :
    /\ \A a \in MatchApps : f[a] \in Pages(a)
    /\ rev = r
    /\ tasks = <<PendingTask(2, "X", <<"A", " ">>)>>
    /\ users = [u \in Users |-> NewUser(u, IF u = 2 THEN 1 ELSE None)]
    /\ config = [DefaultConfig EXCEPT !.monitored_apps =
                   <<[id |-> "X", name |-> "App"], [id |-> "Y", name |-> "App"]>>]
    /\ feed = f
    /\ withdrawals = <<>>
    /\ seen_reviews = {}
    /\ now = 0
    /\ bg = bgIdle
    /\ notified = {}
    /\ adminOps = 0
    /\ last = NoStep
    /\ DialogIdle

\* The sweeps and the settlement operation with the store, the feed and the
\* message API failing at will.
NextFaults ==
  \/ /\ \E f \in Faults : run_automation_with(f)
     /\ UNCHANGED <<last, dialogVars>>
  \/ /\ \E f \in Faults : run_automation_and_alerts_with(f)
     /\ UNCHANGED <<last, dialogVars>>
  \/ /\ \E t \in 1 .. MaxTasks, k \in FailAt : call_approve_task_until(t, k)
     /\ UNCHANGED dialogVars

SpecFaults == InitFaults /\ [][NextFaults]_vars


\* ------------------------------------------------------------ properties
ApprovedTasksOf(u) ==
  {t \in DOMAIN tasks : tasks[t].user_id = u /\ tasks[t].status = "approved"}

ApprovedTasksReferredBy(r) ==
  {t \in DOMAIN tasks : tasks[t].status = "approved"
                        /\ users[tasks[t].user_id].referrer = r}

\* The reviews of app a's page that were in the feed before the running cycle
\* started and after task t was submitted.
ReviewsFor(t, a, count) ==
  LET page == play_reviews(a, count)
  IN {page[i] : i \in {x \in DOMAIN page :
                         /\ tasks[t].submitted_at < page[x].at
                         /\ page[x].at < bg.started
                         /\ strip(lower(tasks[t].review_name))
                              = strip(lower(page[x].userName))}}

\* The sweep ends a cycle with this step.
CycleEnds == bg.pc # "sleep" /\ bg'.pc = "sleep"

Monitored(apps) == {apps[i].id : i \in DOMAIN apps}

\* C1: however often and by whichever path a task is settled, its owner is
\* paid for it at most once, the owner's task counter counts it at most once,
\* and the payment goes with exactly one terminal status: a task is paid once
\* when it is approved and never otherwise.
C1_CreditedAtMostOnce ==
  /\ \A t \in DOMAIN tasks :
       /\ tasks[t].credited <= 1
       /\ tasks[t].status \in {"pending", "approved", "rejected"}
       /\ (tasks[t].credited = 1) <=> (tasks[t].status = "approved")
  /\ \A u \in Users : users[u].total_tasks = Cardinality(ApprovedTasksOf(u))

\* Two settlement attempts were made on one task, which was paid once.
C1_Witness ==
  \E t \in DOMAIN tasks :
    tasks[t].attempts >= 2 /\ tasks[t].credited = 1 /\ tasks[t].status = "approved"

\* C2: a task's status changes only from pending to approved or from pending
\* to rejected; an approved or rejected task keeps its status for ever.
C2_OneWayStatus ==
  [][\A t \in DOMAIN tasks :
       \/ tasks'[t].status = tasks[t].status
       \/ /\ tasks[t].status = "pending"
          /\ tasks'[t].status \in {"approved", "rejected"}]_vars

\* A task was rejected at its deadline, a matching 5-star review arrived
\* afterwards, and a later cycle has seen that review and ended.
C2_Witness ==
  /\ rev = "bot"
  /\ bg.pc = "sleep"
  /\ \E t \in DOMAIN tasks :
       /\ tasks[t].status = "rejected"
       /\ Len(feed[tasks[t].app_id]) = 1
       /\ \E i \in DOMAIN feed[tasks[t].app_id] :
            LET r == feed[tasks[t].app_id][i]
            IN /\ r.score = MAX_RATING
               /\ bot_names_match(tasks[t].review_name, r.userName)
               /\ r.id \in seen_reviews
               /\ r.at > tasks[t].submitted_at + DEADLINE_HOURS

\* C7: the bonuses a referrer has received are one per approved task of the
\* users they referred; nobody receives a bonus for a task whose owner has no
\* referrer.
C7_BonusPerApprovedTask ==
  /\ \A r \in Users :
       users[r].bonus_credits = Cardinality(ApprovedTasksReferredBy(r))
  /\ \A t \in DOMAIN tasks :
       tasks[t].bonused = IF /\ tasks[t].status = "approved"
                             /\ users[tasks[t].user_id].referrer # None
                          THEN 1 ELSE 0

\* C8: a cycle that found, when it started, a matching 5-star review in the
\* page of a monitored app for a task submitted before the review ends with
\* the task settled, and an approved task has its owner paid once and its
\* owner's referrer credited.
C8_SweepApproves ==
  [][CycleEnds =>
       \A t \in DOMAIN tasks :
         (/\ tasks[t].app_id \in Monitored(bg.apps)
          /\ \E r \in ReviewsFor(t, tasks[t].app_id, MAIN_PAGE) : r.score = MAX_RATING
          /\ \A r \in ReviewsFor(t, tasks[t].app_id, MAIN_PAGE) : r.score = MAX_RATING)
         => /\ tasks'[t].status # "pending"
            /\ tasks'[t].status = "approved" =>
                 /\ tasks'[t].credited = 1
                 /\ users'[tasks[t].user_id].referrer # None => tasks'[t].bonused = 1]_vars

\* C9: a cycle that found, when it started, a matching review below 5 stars
\* for a task submitted before the review ends with the task settled, and a
\* rejected task has paid nobody.
C9_SweepRejects ==
  [][CycleEnds =>
       \A t \in DOMAIN tasks :
         (/\ tasks[t].app_id \in Monitored(bg.apps)
          /\ \E r \in ReviewsFor(t, tasks[t].app_id, MAIN_PAGE) : r.score < MAX_RATING
          /\ \A r \in ReviewsFor(t, tasks[t].app_id, MAIN_PAGE) : r.score < MAX_RATING)
         => /\ tasks'[t].status # "pending"
            /\ tasks'[t].status = "rejected" =>
                 /\ tasks'[t].credited = 0
                 /\ tasks'[t].bonused = 0]_vars

\* C10: a cycle that started when a task of a monitored app was past its
\* deadline ends with the task settled, whether or not a review arrived.
C10_OverdueSettled ==
  [][CycleEnds =>
       \A t \in DOMAIN tasks :
         (/\ tasks[t].app_id \in Monitored(bg.apps)
          /\ bg.started - tasks[t].submitted_at > DEADLINE_HOURS)
         => tasks'[t].status # "pending"]_vars


\* C3: a settlement operation called for a task that is not pending changes
\* nothing: the task keeps its status and its payment history, and no user's
\* balance or task counter changes.
C3_SettledTaskUntouched ==
  [][(/\ last'.op \in {"approve_task", "reject_task", "handle_task_action"}
      /\ tasks[last'.arg].status # "pending")
     => /\ tasks'[last'.arg].status = tasks[last'.arg].status
        /\ tasks'[last'.arg].credited = tasks[last'.arg].credited
        /\ tasks'[last'.arg].bonused = tasks[last'.arg].bonused
        /\ users' = users]_vars

\* C4: a withdrawal leaves pending at most once and is refunded at most once;
\* once it is approved or rejected its status, amount and refund count stay,
\* and a button pressed under it changes no balance.
C4_ResolvedOnce ==
  [][\A w \in DOMAIN withdrawals :
       /\ withdrawals'[w].refunds <= 1
       /\ (withdrawals'[w].refunds = 1) <=> (withdrawals'[w].status = "rejected")
       /\ withdrawals[w].status # "pending" =>
            /\ withdrawals'[w].status = withdrawals[w].status
            /\ withdrawals'[w].amount = withdrawals[w].amount
            /\ withdrawals'[w].refunds = withdrawals[w].refunds
            /\ (last'.op = "handle_withdrawal_action" /\ last'.arg = w) => users' = users]_vars

\* A button was pressed twice under a withdrawal that was rejected and
\* refunded once.
C4_Witness ==
  \E w \in DOMAIN withdrawals :
    /\ withdrawals[w].attempts >= 2
    /\ withdrawals[w].status = "rejected"
    /\ withdrawals[w].refunds = 1

\* The request was for a number between min_withdraw and the balance it found.
ValidRequest(w) ==
  /\ fle(config.min_withdraw, withdrawals[w].amount)
  /\ fle(withdrawals[w].amount, withdrawals[w].before)

\* C5: with nothing else changing the user's balance, a valid request leaves
\* the balance lower by exactly its amount, and rejecting it leaves the balance
\* what it was before the request.
C5_RoundTrip ==
  \A w \in DOMAIN withdrawals :
    (ValidRequest(w) /\ ~withdrawals[w].touched) =>
       users[withdrawals[w].user_id].balance =
         IF withdrawals[w].status = "rejected"
         THEN withdrawals[w].before
         ELSE fadd(withdrawals[w].before, fneg(withdrawals[w].amount))

\* C6: the last step of the withdrawal dialog accepts the text exactly when it
\* is a number with min_withdraw <= amount <= balance: then the balance is
\* debited and a pending request recorded; otherwise neither the users nor
\* the requests change.
C6_AcceptedIffValid ==
  [][last'.op = "withdraw_amount" =>
       LET u == last'.arg
           v == float(last'.text)
           valid == /\ v.ok
                    /\ fle(config.min_withdraw, v.val)
                    /\ fle(v.val, users[u].balance)
       IN IF valid
          THEN /\ Len(withdrawals') = Len(withdrawals) + 1
               /\ withdrawals'[Len(withdrawals')].user_id = u
               /\ withdrawals'[Len(withdrawals')].amount = v.val
               /\ withdrawals'[Len(withdrawals')].status = "pending"
               /\ users'[u].balance = fadd(users[u].balance, fneg(v.val))
          ELSE UNCHANGED <<users, withdrawals>>]_vars

\* C11: a task records the configured price when it is submitted, the
\* recorded price never changes, and whenever the task is paid, by the sweep
\* or by an admin's button, the amount is the recorded price, whatever the
\* config holds at that moment.
C11_PaidPriceAtSubmission ==
  [][\A t \in DOMAIN tasks' :
       /\ t \notin DOMAIN tasks => tasks'[t].price = config.task_price
       /\ t \in DOMAIN tasks => tasks'[t].price = tasks[t].price
       /\ tasks'[t].credited > 0 => tasks'[t].paid = tasks'[t].price]_vars

\* A task was approved and paid after the configured price had changed.
C11_Witness ==
  \E t \in DOMAIN tasks :
    /\ tasks[t].status = "approved"
    /\ tasks[t].credited = 1
    /\ tasks[t].price # config.task_price
    /\ users[tasks[t].user_id].balance = tasks[t].price

\* The review a step of the sweep compares task t with, as a set: the review
\* under the loop of main.py:617-621, the first review of the page with the
\* task's name in bot.py:425-437.
MatchedReview(t) ==
  IF rev = "main"
  THEN IF bg.pc = "match" /\ bg.k <= Len(bg.ptasks) /\ bg.ptasks[bg.k] = t
       THEN {bg.reviews[bg.j]} ELSE {}
  ELSE IF bg.pc = "approvals" /\ bg.i <= Len(bg.apps)
       THEN LET result == play_reviews(bg.apps[bg.i].id, BOT_MATCH_PAGE)
                m == FirstMatch(tasks[t].review_name, result)
            IN IF tasks[t].app_id = bg.apps[bg.i].id /\ m # 0 THEN {result[m]} ELSE {}
       ELSE {}

\* The reviews on the notification page of the apps of the running cycle that
\* were in the feed before the cycle started.
PageAtStart ==
  UNION {{r \in {play_reviews(bg.apps[i].id, IF rev = "main" THEN MAIN_PAGE ELSE BOT_ALERT_PAGE)[x] :
                   x \in 1 .. Len(play_reviews(bg.apps[i].id,
                                    IF rev = "main" THEN MAIN_PAGE ELSE BOT_ALERT_PAGE))} :
            r.at < bg.started} : i \in DOMAIN bg.apps}

ClaimedMatch(task_name, author) == lower(strip(task_name)) = lower(strip(author))

\* C13: the name comparison of both sweeps is equality after trimming and
\* lower-casing, and a step of a sweep approves a pending task only when the
\* page of the task's own app holds a 5-star review whose author equals the
\* task's name under that rule.
C13_MatchRule ==
  [][/\ \A n \in TaskNameTexts, a \in ReviewAuthors :
          /\ names_match(strip(n), a) <=> ClaimedMatch(n, a)
          /\ bot_names_match(strip(n), a) <=> ClaimedMatch(n, a)
     /\ \A t \in DOMAIN tasks :
          (bg' # bg /\ tasks[t].status = "pending" /\ tasks'[t].status = "approved")
          => \E i \in DOMAIN feed[tasks[t].app_id] :
               /\ feed[tasks[t].app_id][i].score = MAX_RATING
               /\ ClaimedMatch(tasks[t].review_name,
                               feed[tasks[t].app_id][i].userName)]_vars

\* The sweep approved a task on the review of its app and left pending a task
\* with the same name for the other app, whose page has no such review.
C13_Witness ==
  \E t, o \in DOMAIN tasks :
    /\ tasks[t].status = "approved" /\ tasks[t].credited = 1
    /\ tasks[o].status = "pending"
    /\ tasks[o].review_name = tasks[t].review_name
    /\ tasks[o].app_id # tasks[t].app_id
    /\ bg.pc = "sleep" /\ seen_reviews # {}

\* C14: an Approve or Reject button under a task or a withdrawal request,
\* pressed by an account that is not an admin, changes no task, no
\* withdrawal, no user record and no setting.
C14_ManualSettlementAdminOnly ==
  [][(/\ last'.op \in {"handle_task_action", "handle_withdrawal_action"}
      /\ last'.by # OWNER_ID
      /\ ~users[last'.by].is_admin)
     => /\ tasks' = tasks
        /\ withdrawals' = withdrawals
        /\ users' = users
        /\ config' = config]_vars

\* An account that is not an admin pressed a button under a pending task
\* while a withdrawal request was pending too.
C14_Witness ==
  /\ last.op = "handle_task_action"
  /\ last.by # OWNER_ID
  /\ ~users[last.by].is_admin
  /\ tasks[last.arg].status = "pending"
  /\ \E w \in DOMAIN withdrawals : withdrawals[w].status = "pending"

\* The window as stated, for parsed bounds and a reading of the clock:
\* inclusive, crossing midnight when the start is after the end.
ClaimedWindow(from, to, clk) ==
  IF from <= to THEN from <= clk /\ clk <= to
  ELSE clk >= from \/ clk <= to

\* C17: for every window with well-formed bounds and every reading of the
\* clock on a full minute, is_working_hour returns start <= now <= end when
\* start <= end and (now >= start or now <= end) when start > end; for
\* start = end it is true at now = start only.
C17_WindowMembership ==
  [][(/\ last'.op = "is_working_hour"
      /\ strptime(config.work_start_time).ok
      /\ strptime(config.work_end_time).ok
      /\ clock % 60 = 0)
     => ((last'.text = "True")
           <=> ClaimedWindow(strptime(config.work_start_time).val,
                             strptime(config.work_end_time).val, clock))]_vars

\* C16: a press of the submit button at a time outside the configured
\* window leaves the submission flow idle and creates no task.
C16_ClosedHoursRefused ==
  [][(/\ update'.handler = "start_task_submission"
      /\ ~ClaimedWindow(strptime(config.work_start_time).val,
                        strptime(config.work_end_time).val, clock - (clock % 60)))
     => /\ conv'[update'.from]["task"] = END
        /\ tasks' = tasks]_vars

\* The signal of the Cancel button of the running revision.
CancelSignal(d) == d = (IF rev = "main" THEN "cancel" ELSE "cancel_task")

\* C18: a cancellation signal sent while the sender is inside the submission
\* or the withdrawal flow leaves the sender in no flow, and creates no task
\* or withdrawal and changes no user record and no setting.
C18_CancelReturnsToIdle ==
  [][(/\ update' # update
      /\ CancelSignal(update'.data)
      /\ \E f \in {"task", "wd"} : conv[update'.from][f] # END)
     => /\ \A f \in {"task", "wd"} : conv'[update'.from][f] = END
        /\ tasks' = tasks
        /\ withdrawals' = withdrawals
        /\ users' = users
        /\ config' = config]_vars

\* C19: every user's balance is a number not below zero in every reachable
\* state of the ledger: after withdrawal requests, their approval or
\* rejection, and the admin's add and deduct edits.
C19_BalanceNonNegative ==
  \A u \in Users : fle(Flt(0), users[u].balance)

\* The callbacks that carry out an admin-only action: a working-hours edit,
\* a grant or revocation of the admin role, a block or unblock, a balance
\* edit.
AdminActions == {"set_time_start_save", "set_time_end_save", "add_admin_save",
                 "rmv_admin_save", "user_action_handler", "user_balance_update"}

\* C15: an admin-only action attempted by an account that is neither the
\* owner nor flagged as admin leaves the config store and every user record
\* unchanged.
C15_AdminActionsAdminOnly ==
  [][(/\ update'.handler \in AdminActions
      /\ update'.from # OWNER_ID
      /\ ~(update'.from \in DOMAIN users /\ users[update'.from].is_admin))
     => (config' = config /\ users' = users)]_vars

C22_ApproveFrame ==
  [][(/\ last'.op = "handle_withdrawal_action" /\ last'.text = "apr"
      /\ last'.arg \in DOMAIN withdrawals
      /\ withdrawals[last'.arg].status = "pending"
      /\ (last'.by = OWNER_ID \/ users[last'.by].is_admin))
     => (/\ users' = users
         /\ DOMAIN withdrawals' = DOMAIN withdrawals
         /\ withdrawals'[last'.arg].status = "approved"
         /\ withdrawals'[last'.arg].processed_by = last'.by
         /\ withdrawals'[last'.arg].user_id = withdrawals[last'.arg].user_id
         /\ withdrawals'[last'.arg].amount = withdrawals[last'.arg].amount
         /\ \A x \in DOMAIN withdrawals :
              x # last'.arg => withdrawals'[x] = withdrawals[x])]_vars

C22_Witness ==
  /\ last.op = "handle_withdrawal_action" /\ last.text = "apr"
  /\ last.arg \in DOMAIN withdrawals
  /\ withdrawals[last.arg].status = "approved"
  /\ withdrawals[last.arg].processed_by = last.by
  /\ withdrawals[last.arg].attempts = 1
  /\ users[withdrawals[last.arg].user_id].balance
       = fadd(withdrawals[last.arg].before, fneg(withdrawals[last.arg].amount))

\* C30: outside a settlement in progress, every approved task has been
\* credited to its owner exactly once and counted in the owner's
\* total_tasks, also after a store call inside approve_task has failed.
C30_ApprovedIsCredited ==
  bg.pc \notin {"apr_task", "apr_user"} =>
    /\ \A t \in DOMAIN tasks : tasks[t].status = "approved" => tasks[t].credited = 1
    /\ \A u \in Users :
         users[u].total_tasks =
           Cardinality({t \in DOMAIN tasks :
                          tasks[t].user_id = u /\ tasks[t].status = "approved"})

C26_SweepSurvives == bg.pc # "dead"

\* The steps of one instance of the submission flow before the proof.
StepsBeforeProof == <<"select_app", "enter_name", "enter_email", "enter_device">>

\* C23: a task is created only by the last step of the submission flow, as
\* pending, after the steps select_app, enter_name, enter_email and
\* enter_device of the same flow instance, in that order; its app and name
\* are the values entered in that instance and none is missing.
C23_TaskFromCompleteFlow ==
  [][Len(tasks') > Len(tasks)
     => (/\ update'.handler = "save_task"
         /\ user_data[update'.from].path = StepsBeforeProof
         /\ tasks'[Len(tasks')].status = "pending"
         /\ tasks'[Len(tasks')].user_id = update'.from
         /\ tasks'[Len(tasks')].app_id = user_data[update'.from].tid
         /\ tasks'[Len(tasks')].review_name = user_data[update'.from].rname
         /\ tasks'[Len(tasks')].app_id # NoData.tid
         /\ tasks'[Len(tasks')].review_name # NoData.rname)]_vars

\* C24: a session that is in no flow holds no working data: no key a flow
\* collected is still stored.
C24_IdleSessionEmpty ==
  \A u \in Users :
    (\A f \in Flows : conv[u][f] = END)
      => /\ user_data[u].tid = NoData.tid
         /\ user_data[u].rname = NoData.rname
         /\ user_data[u].mng_uid = NoData.mng_uid
         /\ user_data[u].bal_action = NoData.bal_action
         /\ user_data[u].edit_key = NoData.edit_key
         /\ user_data[u].nid = NoData.nid

\* The config as stated: the stored value of every stored key, the default
\* of every other key; the defaults when there is no document.
ClaimedConfig(doc) ==
  [k \in DOMAIN DefaultConfig |->
     IF doc.exists /\ k \in DOMAIN doc.data THEN doc.data[k] ELSE DefaultConfig[k]]

\* C29: get_config returns, for every stored document, the stored value of
\* each stored key and the default of each other key, and the defaults when
\* the document is absent or the read fails; it never raises.
C29_GetConfigMerges ==
  [][last'.op = "get_config"
     => (/\ ~last'.arg.raised
         /\ last'.arg.value = IF last'.text = "read" THEN ClaimedConfig(config)
                               ELSE DefaultConfig)]_vars

\* The keys edit_text_save takes as numbers, and the texts that parse as one.
NumericKeys == {"referral_bonus", "min_withdraw"}
ParsesAsNumber(text) == text \in DOMAIN Numerals \cup {"nan"}

\* cfg with the one key written and every other key as it was.
OnlyKeyWritten(cfg, cfg2, key, val) ==
  /\ DOMAIN cfg2 = DOMAIN cfg
  /\ cfg2[key] = val
  /\ \A k \in DOMAIN cfg \ {key} : cfg2[k] = cfg[k]

\* C28: an admin edit of a numeric key whose text is no number, or of a
\* working-hours value whose text is no HH:MM, ends the flow and leaves the
\* stored config as it was; a text that parses ends the flow and writes that
\* one key, every other key unchanged.
C28_EditValidation ==
  [][LET u == update'.from
         text == update'.data
         h == update'.handler
     IN /\ (h = "edit_text_save" /\ user_data[u].edit_key \in NumericKeys) =>
              /\ conv'[u]["edit"] = END
              /\ IF ParsesAsNumber(text)
                 THEN OnlyKeyWritten(config, config', user_data[u].edit_key, float(text).val)
                 ELSE config' = config
        /\ (h = "set_time_start_save") =>
              /\ conv'[u]["set_time_start"] = END
              /\ IF strptime(strip_text(text)).ok
                 THEN OnlyKeyWritten(config, config', "work_start_time", strip_text(text))
                 ELSE config' = config
        /\ (h = "set_time_end_save") =>
              /\ conv'[u]["set_time_end"] = END
              /\ IF strptime(strip_text(text)).ok
                 THEN OnlyKeyWritten(config, config', "work_end_time", strip_text(text))
                 ELSE config' = config]_vars

\* A number has been written to referral_bonus, and a start time that is no
\* HH:MM has just been refused.
C28_Witness ==
  /\ config.referral_bonus = Numerals["2"]
  /\ update.handler = "set_time_start_save"
  /\ update.data = "2"
  /\ config.work_start_time = DefaultConfig.work_start_time
  /\ conv[OWNER_ID]["set_time_start"] = END

\* The tunables of the configuration surface that are keys of the config.
Tunables == {"task_price", "referral_bonus", "min_withdraw", "monitored_apps",
             "work_start_time", "work_end_time", "log_channel_id"}

\* The callbacks of the panel that end a conversation by saving a value.
SaveHandlers == {"edit_text_save", "set_time_start_save", "set_time_end_save",
                 "set_log_save", "add_app_name"}

\* The owner completes a conversation: the callback h takes the text x.
Completes(h, x) ==
  /\ update'.handler = h
  /\ update'.data = x

\* The owner keeps completing every conversation of the panel with every text.
OwnerKeepsSaving ==
  \A h \in SaveHandlers, x \in ConfigTexts : []<><<Completes(h, x)>>_vars

\* C21: every tunable can be changed through the admin dialog: an owner who
\* keeps completing every conversation of the panel with every text brings
\* the stored value of each tunable to differ from its value at the start,
\* and the deadline the sweep uses as well.
C21_EveryTunableChanges ==
  OwnerKeepsSaving =>
    /\ \A k \in Tunables : <>(config[k] # DefaultConfig[k])
    /\ <>(settlement_deadline(config) # settlement_deadline(DefaultConfig))

\* The balance b after n credits of amount.
RECURSIVE AddTimes(_, _, _)
AddTimes(b, amount, n) == IF n = 0 THEN b ELSE AddTimes(fadd(b, amount), amount, n - 1)

\* The balance b after the payments of u's tasks from t on.
RECURSIVE AddTasks(_, _, _)
AddTasks(b, u, t) ==
  IF t > Len(tasks) THEN b
  ELSE AddTasks(IF tasks[t].user_id = u THEN AddTimes(b, tasks[t].price, tasks[t].credited)
                ELSE b, u, t + 1)

\* The balance b after the refunds of u's requests from w on.
RECURSIVE AddRefunds(_, _, _)
AddRefunds(b, u, w) ==
  IF w > Len(withdrawals) THEN b
  ELSE AddRefunds(IF withdrawals[w].user_id = u
                  THEN AddTimes(b, withdrawals[w].amount, withdrawals[w].refunds)
                  ELSE b, u, w + 1)

\* The balance of u as stated: the balance at the start plus every amount
\* credited since: task payments, referral bonuses, refunds, admin additions.
ClaimedBalance(u) ==
  LET b0 == IF u = CreditedUser
            THEN fadd(withdrawals[1].before, fneg(withdrawals[1].amount)) ELSE Flt(0)
      b1 == AddTasks(b0, u, 1)
      b2 == AddTimes(b1, config.referral_bonus, users[u].bonus_credits)
      b3 == AddRefunds(b2, u, 1)
  IN AddTimes(b3, Numerals["115.7"], IF u = CreditedUser THEN adminOps ELSE 0)

\* C27: whatever the order in which the credits of an account arrive, its
\* balance is the balance at the start plus the sum of the amounts credited.
C27_CreditsCommute == \A u \in Users : users[u].balance = ClaimedBalance(u)

\* The balance b less the amounts of u's pending and approved requests from
\* w on.
RECURSIVE LessHeld(_, _, _)
LessHeld(b, u, w) ==
  IF w > Len(withdrawals) THEN b
  ELSE LessHeld(IF withdrawals[w].user_id = u /\ withdrawals[w].status \in {"pending", "approved"}
                THEN fadd(b, fneg(withdrawals[w].amount)) ELSE b, u, w + 1)

\* C31: no debit without a record: what a user's balance lost to withdrawal
\* requests is the amounts of the user's pending and approved requests, each
\* counted once, also when a store call of the request fails.
C31_DebitHasRecord == \A u \in Users : users[u].balance = LessHeld(DebitStart, u, 1)

\* The tasks approved on the review rid: in the run of the matching rule the
\* sweep is the only one to approve and the page of an app holds at most one
\* review, so a task of an app was approved on the review of that app's page.
ApprovedOn(rid) ==
  {t \in DOMAIN tasks :
     /\ tasks[t].status = "approved"
     /\ \E i \in DOMAIN feed[tasks[t].app_id] : feed[tasks[t].app_id][i].id = rid}

\* C32: one review approves at most one task, also when several pending
\* tasks of the app claim the review's name.
C32_OneTaskPerReview ==
  \A a \in MatchApps : \A i \in DOMAIN feed[a] :
     Cardinality(ApprovedOn(feed[a][i].id)) <= 1

\* C33: at most one dialog flow of a user is active at any time: entering a
\* flow never leaves two flows of the user waiting for input.
C33_OneActiveFlow ==
  \A u \in Users : Cardinality({f \in Flows : conv[u][f] # END}) <= 1

\* C34: every step that creates a task is taken at a time inside the
\* working-hours window the config holds at that step, also when the flow
\* was entered earlier.
C34_TaskInsideWindow ==
  [][Len(tasks') > Len(tasks) => is_working_hour(config, clock)]_vars

\* C35: a step taken while a user is blocked adds no task and no withdrawal
\* request of that user.
C35_BlockedCreatesNothing ==
  [][\A u \in DOMAIN users :
       users[u].is_blocked
       => /\ Len(tasks') > Len(tasks) => tasks'[Len(tasks')].user_id # u
          /\ Len(withdrawals') > Len(withdrawals)
             => withdrawals'[Len(withdrawals')].user_id # u]_vars

\* No review of the page fetched for the app of task t carries the task's
\* name after trimming and lower-casing.
NoReviewFor(t) ==
  \A i \in DOMAIN play_reviews(tasks[t].app_id, BOT_MATCH_PAGE) :
    ~ClaimedMatch(tasks[t].review_name,
                  play_reviews(tasks[t].app_id, BOT_MATCH_PAGE)[i].userName)

\* C36: a step of a sweep that rejects a task for which the page holds no
\* matching review finds the task pending and older than the deadline; a
\* task not older than the deadline is never rejected for lack of a match.
C36_NotFoundOnlyOverdue ==
  [][\A t \in DOMAIN tasks :
       (/\ bg' # bg
        /\ tasks'[t].status = "rejected"
        /\ tasks'[t] # tasks[t]
        /\ NoReviewFor(t))
       => /\ tasks[t].status = "pending"
          /\ now - tasks[t].submitted_at > DEADLINE_HOURS]_vars

\* A task rejected by the sweep of bot.py that found no review for it, two
\* deadline spans after the submission.
C36_Witness ==
  /\ rev = "bot"
  /\ \E t \in DOMAIN tasks :
       /\ tasks[t].status = "rejected"
       /\ tasks[t].attempts = 1
       /\ feed[tasks[t].app_id] = <<>>
       /\ now - tasks[t].submitted_at = 2 * DEADLINE_HOURS

\* The ids of the apps of a list.
AppIdsOf(apps) == {apps[i].id : i \in DOMAIN apps}

\* C37: a press of a button of the removal menu removes the app the menu
\* showed on that button, and no other app, whatever happened to the list
\* since the menu was drawn.
C37_RemovesSelectedApp ==
  [][(/\ update'.handler = "rmv_app_sel"
      /\ update'.data \in RemoveData
      /\ IdxOf(update'.data) < Len(user_data[update'.from].menu))
     => AppIdsOf(config'.monitored_apps)
          = AppIdsOf(config.monitored_apps)
              \ {user_data[update'.from].menu[IdxOf(update'.data) + 1].id}]_vars

\* C38: the owner is an admin in every reachable state: whatever the
\* dialogs that grant and revoke the admin role did before, a press of the
\* owner on Approve or Reject under a pending task settles the task.
C38_OwnerIsAdmin ==
  [][(/\ last'.op = "handle_task_action"
      /\ last'.by = OWNER_ID
      /\ tasks[last'.arg].status = "pending")
     => tasks'[last'.arg].status
          = (IF last'.text = "apr" THEN "approved" ELSE "rejected")]_vars

\* The owner, who has no document, settled a task, and the removal of the
\* owner's role was asked for by id.
C38_Witness ==
  /\ last.op = "handle_task_action"
  /\ last.by = OWNER_ID
  /\ tasks[last.arg].status = "approved"
  /\ OWNER_ID \notin DOMAIN users
  /\ update.handler = "rmv_admin_save"
  /\ update.data = "1"

\* C39: every user document of the store holds every key create_user
\* writes, also the document of an id whose admin role was granted or
\* revoked before the user's first contact.
C39_RecordsWellFormed == \A u \in DOMAIN users : users[u].full
====
